---- MODULE Spec2Model ----
(***************************************************************************)
(* fsbuilder: the remote module plugins/modules/fsbuilder.py.  One          *)
(* behaviour is one run of main() against a filesystem, optionally         *)
(* followed by a second run with the same arguments.                       *)
(*                                                                         *)
(* A path string is a sequence of tokens: "/" and file names, so that       *)
(* "/d/f" is <<"/","d","/","f">>, "///" is <<"/","/","/">> and "" is <<>>.  *)
(* A node is the sequence of names of an absolute path (<<>> is the root). *)
(* The filesystem is a function from the existing nodes to their entries.  *)
(* File content is a sequence of one-character strings.                    *)
(* An optional value is a sequence of length 0 (None) or 1.                *)
(***************************************************************************)
EXTENDS Integers, Sequences, FiniteSets, TLC

VARIABLES fs, fs0, params, res, ops, phase, first

vars == <<fs, fs0, params, res, ops, phase, first>>

(***************************************************************************)
(* Bounds of the model.                                                    *)
(***************************************************************************)
\* longest file content (characters) an initial file holds
MaxInitLen == 8
\* symlink resolution depth (os.path follows chains; the model has chains of 1)
MaxLinkDepth == 2
\* most lines of a file the line and block edits are run on
MaxLines == 3
\* the forced replacements of one dest that are followed
MaxForced == 3

SL == "/"
NL == "\n"

(***************************************************************************)
(* os.path string functions (posixpath).                                   *)
(***************************************************************************)
IsName(t) == t # SL

AllSlashes(p) == \A i \in 1..Len(p) : p[i] = SL

LastSlash(p) ==
    IF \E i \in 1..Len(p) : p[i] = SL
    THEN CHOOSE i \in 1..Len(p) : p[i] = SL /\ \A j \in (i+1)..Len(p) : p[j] # SL
    ELSE 0

RECURSIVE RStripSlash(_)
RStripSlash(p) ==
    IF Len(p) > 0 /\ p[Len(p)] = SL THEN RStripSlash(SubSeq(p, 1, Len(p) - 1)) ELSE p

dirname(p) ==
    LET head == SubSeq(p, 1, LastSlash(p))
    IN  IF head # <<>> /\ ~AllSlashes(head) THEN RStripSlash(head) ELSE head

basename(p) == SubSeq(p, LastSlash(p) + 1, Len(p))

IsAbs(p) == Len(p) > 0 /\ p[1] = SL

\* the node an absolute path string names (repeated slashes collapse)
NodeOf(p) == SelectSeq(p, IsName)

RECURSIVE PathOf(_)
PathOf(n) == IF n = <<>> THEN <<SL>>
             ELSE IF Len(n) = 1 THEN <<SL, n[1]>>
             ELSE PathOf(SubSeq(n, 1, Len(n) - 1)) \o <<SL, n[Len(n)]>>

\* dest + suffix, on the last token of the string
AddSuffix(p, suf) ==
    IF Len(p) > 0 /\ p[Len(p)] # SL
    THEN [p EXCEPT ![Len(p)] = p[Len(p)] \o suf]
    ELSE Append(p, suf)

(***************************************************************************)
(* The filesystem.                                                         *)
(***************************************************************************)
IsPrefix(a, b) == Len(a) <= Len(b) /\ SubSeq(b, 1, Len(a)) = a

Parent(n) == SubSeq(n, 1, Len(n) - 1)

Under(f, n) == {m \in DOMAIN f : IsPrefix(n, m)}

Put(f, n, e) == [m \in (DOMAIN f) \cup {n} |-> IF m = n THEN e ELSE f[m]]

Del(f, S) == [m \in (DOMAIN f) \ S |-> f[m]]

FreshIno(f) ==
    IF DOMAIN f = {} THEN 1
    ELSE 1 + (CHOOSE k \in {f[m].ino : m \in DOMAIN f} :
                 \A m \in DOMAIN f : f[m].ino <= k)

Now == 1

FileEntry(f, data) ==
    [type |-> "file", data |-> data, target |-> <<>>, mode |-> 0,
     ino |-> FreshIno(f), dev |-> 0, mtime |-> Now]

DirEntry(f) ==
    [type |-> "dir", data |-> <<>>, target |-> <<>>, mode |-> 0,
     ino |-> FreshIno(f), dev |-> 0, mtime |-> Now]

LinkEntry(f, target) ==
    [type |-> "link", data |-> <<>>, target |-> target, mode |-> 0,
     ino |-> FreshIno(f), dev |-> 0, mtime |-> Now]

\* the node a path resolves to when its last component is followed
RECURSIVE Follow(_, _, _)
Follow(f, n, depth) ==
    IF n \in DOMAIN f /\ f[n].type = "link" /\ depth > 0 /\ IsAbs(f[n].target)
    THEN Follow(f, NodeOf(f[n].target), depth - 1)
    ELSE n

Resolve(f, p) == Follow(f, NodeOf(p), MaxLinkDepth)

lexists(f, p) == IsAbs(p) /\ NodeOf(p) \in DOMAIN f

exists(f, p) ==
    /\ IsAbs(p)
    /\ Resolve(f, p) \in DOMAIN f
    /\ f[Resolve(f, p)].type # "link"

isfile(f, p) == exists(f, p) /\ f[Resolve(f, p)].type = "file"

isdir(f, p) == exists(f, p) /\ f[Resolve(f, p)].type = "dir"

islink(f, p) == lexists(f, p) /\ f[NodeOf(p)].type = "link"

ReadFile(f, p) == f[Resolve(f, p)].data

\* shutil.rmtree / os.unlink: the node and everything beneath it
RemoveNode(f, n) == Del(f, Under(f, n))

\* os.rename(a, b): a and its subtree take b's place
RenameNode(f, a, b) ==
    LET kept  == Del(f, Under(f, a) \cup Under(f, b))
        moved == {m \in DOMAIN f : IsPrefix(a, m)}
        to(m) == b \o SubSeq(m, Len(a) + 1, Len(m))
    IN  [m \in (DOMAIN kept) \cup {to(x) : x \in moved} |->
            IF \E x \in moved : to(x) = m
            THEN f[CHOOSE x \in moved : to(x) = m]
            ELSE kept[m]]

(***************************************************************************)
(* A run threads a context c = [fs, ops] through the code: fs is the       *)
(* filesystem so far and ops the log of the mutating calls made so far.    *)
(* fail_json ends the process (AnsibleModule.fail_json calls sys.exit, see *)
(* tests/unit/conftest.py "without it calling sys.exit()"): SystemExit is  *)
(* not an Exception, so no "except Exception" handler runs after it.       *)
(***************************************************************************)
Ctx(f) == [fs |-> f, ops |-> <<>>]

Do(c, name, f2) == [fs |-> f2, ops |-> Append(c.ops, name)]

Out(c, changed, failed, msg, bf) ==
    [fs |-> c.fs, ops |-> c.ops, changed |-> changed, failed |-> failed,
     skipped |-> FALSE, msg |-> msg, backup_file |-> bf, diff |-> FALSE]

\* "if self.module._diff: result['diff'] = {...}" on a path that was reached;
\* the result of fail_json and of an exception is another dict, without it
Diffed_always(o, p, reached) == [o EXCEPT !.diff = reached /\ ~o.failed]

Diffed(o, p, reached) == [o EXCEPT !.diff = p.diff /\ reached /\ ~o.failed]

Ok(c, changed, msg) == Out(c, changed, FALSE, msg, <<>>)

FailJson(c, msg) == Out(c, FALSE, TRUE, msg, <<>>)

\* an exception that reaches main(): "Unexpected error"
Unexpected(c) == FailJson(c, "Unexpected error")

\* the name tempfile.mkstemp picks: a name that is free in the directory
TmpName == "tmp0"

TmpNode(dest) == Append(NodeOf(dirname(dest)), TmpName)

\* module.backup_local's timestamped name and _force_remove's names
BackupPath(dest) == AddSuffix(dest, ".bak")

OldPath(dest) == AddSuffix(dest, ".old")

OldTimePath(dest) == AddSuffix(dest, ".old.T")

\* module.set_fs_attributes_if_different(file_args, changed)
apply_attributes(c, path, p, changed) ==
    LET n      == NodeOf(path)
        differ == /\ p.mode # <<>>
                  /\ n \in DOMAIN c.fs
                  /\ c.fs[n].mode # p.mode[1]
        same(m) == c.fs[m].ino = c.fs[n].ino /\ c.fs[m].dev = c.fs[n].dev
    IN  IF differ /\ ~p.check
        THEN [c |-> Do(c, "chmod",
                       [m \in DOMAIN c.fs |->
                           IF same(m) THEN [c.fs[m] EXCEPT !.mode = p.mode[1]]
                           ELSE c.fs[m]]),
              changed |-> TRUE]
        ELSE [c |-> c, changed |-> changed \/ differ]

\* os.makedirs(n, exist_ok=True): n and every missing ancestor of n
RECURSIVE MakeAll(_, _, _)
MakeAll(f, n, k) ==
    IF k > Len(n) THEN f
    ELSE IF SubSeq(n, 1, k) \in DOMAIN f THEN MakeAll(f, n, k + 1)
    ELSE MakeAll(Put(f, SubSeq(n, 1, k), DirEntry(f)), n, k + 1)

\* _makedirs without the check_mode test of lines 462-463
makedirs_unchecked(c, path, p) ==
    LET parent == dirname(path)
    IN  IF ~p.makedirs THEN c
        ELSE IF isdir(c.fs, parent) THEN c
        ELSE IF ~IsAbs(parent) THEN c
        ELSE Do(c, "makedirs", MakeAll(c.fs, NodeOf(parent), 0))

\* _makedirs(path, params); every dest a handler passes is absolute, so
\* os.makedirs never sees an empty parent
makedirs(c, path, p) ==
    LET parent == dirname(path)
    IN  IF ~p.makedirs THEN c
        ELSE IF isdir(c.fs, parent) THEN c
        ELSE IF p.check THEN c
        ELSE IF ~IsAbs(parent) THEN c
        ELSE Do(c, "makedirs", MakeAll(c.fs, NodeOf(parent), 0))

\* the validate command: "none", or the text of a template with %s ("ok",
\* "fail", "reject") or without ("noplaceholder", "bare") whose run exits 0
\* or non-zero
HasPlaceholder(v) == v \in {"ok", "fail", "reject"}

ExitCode(v) == IF v \in {"fail", "reject"} THEN 1 ELSE 0

\* _validate_file: "ok", or the way the process ended; cmd is
\* validate_cmd % tmp_path
validate_file(c, tmp, v) ==
    IF ~HasPlaceholder(v)
    THEN [c |-> c, status |-> "exit",
          msg |-> "validate command must contain %s: " \o v]
    ELSE IF ExitCode(v) # 0
    THEN [c |-> Do(Do(c, "validate", c.fs), "unlink_tmp", RemoveNode(c.fs, tmp)),
          status |-> "exit", msg |-> "Validation failed: " \o v \o " " \o TmpName]
    ELSE [c |-> Do(c, "validate", c.fs), status |-> "ok", msg |-> ""]

\* module.backup_local(dest): a timestamped copy of dest
backup_local(c, dest) ==
    LET old == c.fs[Resolve(c.fs, dest)]
    IN  Do(c, "backup_local",
           Put(c.fs, NodeOf(BackupPath(dest)),
               [FileEntry(c.fs, old.data) EXCEPT !.mode = old.mode]))

\* module.atomic_move(tmp, dest): os.rename keeping dest's permissions;
\* renaming a file onto a directory fails inside the library (fail_json)
AtomicMoveFails(f, dest) == lexists(f, dest) /\ f[NodeOf(dest)].type = "dir"

atomic_move(c, tmp, dest) ==
    LET keep == IF exists(c.fs, dest) THEN c.fs[Resolve(c.fs, dest)].mode
                ELSE c.fs[tmp].mode
        f1   == [c.fs EXCEPT ![tmp].mode = keep]
    IN  Do(c, "rename", RenameNode(f1, tmp, NodeOf(dest)))

\* a handler's result after the attribute applier a ran on dest
Applied(a, msgChanged, msgSame, bf) ==
    Out(a.c, a.changed, FALSE, IF a.changed THEN msgChanged ELSE msgSame, bf)

StageResult(c, status, msg, bf) == [c |-> c, status |-> status, msg |-> msg, bf |-> bf]

\* the staged part of _write_content and _copy_from_src (lines 535-557 and
\* 688-709), last step first: the atomic move
stage_move(c, dest, bf) ==
    IF AtomicMoveFails(c.fs, dest)
    THEN StageResult(c, "exit", "Could not replace file", bf)
    ELSE StageResult(atomic_move(c, TmpNode(dest), dest), "ok", "", bf)

\* "if params.get('backup') and os.path.isfile(dest)", then the move
stage_backup(c, dest, p) ==
    IF p.backup /\ isfile(c.fs, dest)
    THEN stage_move(backup_local(c, dest), dest, <<BackupPath(dest)>>)
    ELSE stage_move(c, dest, <<>>)

\* what follows _validate_file: nothing when it ended the process
stage_validated(v, dest, p) ==
    IF v.status # "ok" THEN StageResult(v.c, v.status, v.msg, <<>>)
    ELSE stage_backup(v.c, dest, p)

\* the steps in another order: the backup taken before the validate command
\* runs
stage_moved(v, dest, bf) ==
    IF v.status # "ok" THEN StageResult(v.c, v.status, v.msg, bf)
    ELSE stage_move(v.c, dest, bf)

stage_backup_first(c, dest, p) ==
    IF p.validate = "none" THEN stage_backup(c, dest, p)
    ELSE IF p.backup /\ isfile(c.fs, dest)
    THEN stage_moved(validate_file(backup_local(c, dest), TmpNode(dest), p.validate),
                     dest, <<BackupPath(dest)>>)
    ELSE stage_moved(validate_file(c, TmpNode(dest), p.validate), dest, <<>>)

\* "if validate: self._validate_file(tmp_path, validate)", then the rest
stage_validate(c, dest, p) ==
    IF p.validate # "none"
    THEN stage_validated(validate_file(c, TmpNode(dest), p.validate), dest, p)
    ELSE stage_backup(c, dest, p)

\* the temp file: the content written, or shutil.copy2 of src
TempEntry(f, data, srcEntry) ==
    IF srcEntry = <<>> THEN FileEntry(f, data)
    ELSE [FileEntry(f, data) EXCEPT !.mode = srcEntry[1].mode,
                                    !.mtime = srcEntry[1].mtime]

\* tempfile.mkstemp(dir=dest_dir) and the steps after it
Staged(c, dest, data, srcEntry, p) ==
    IF ~isdir(c.fs, dirname(dest))
    THEN StageResult(c, "raise", "Unexpected error", <<>>)
    ELSE stage_validate(Do(c, "mkstemp",
                           Put(c.fs, TmpNode(dest), TempEntry(c.fs, data, srcEntry))),
                        dest, p)

WriteResult(s, changed) ==
    [c |-> s.c, status |-> s.status, msg |-> s.msg, bf |-> s.bf, changed |-> changed]

\* _write_content(dest, content, params)
write_content(c, dest, content, p) ==
    IF isfile(c.fs, dest) /\ ReadFile(c.fs, dest) = content
    THEN WriteResult(StageResult(c, "ok", "", <<>>), FALSE)
    ELSE IF p.check THEN WriteResult(StageResult(c, "ok", "", <<>>), TRUE)
    ELSE WriteResult(Staged(c, dest, content, <<>>, p), TRUE)

\* _force_remove(dest, params)
force_remove(c, dest, p) ==
    IF p.force_backup
    THEN Do(c, "rename_old",
            RenameNode(c.fs, NodeOf(dest),
                       NodeOf(IF exists(c.fs, OldPath(dest)) THEN OldTimePath(dest)
                              ELSE OldPath(dest))))
    ELSE Do(c, "remove", RemoveNode(c.fs, NodeOf(dest)))

\* "if not self.module.check_mode: self._force_remove(dest, params)"
Forced(c, dest, p, conflict) ==
    IF conflict /\ ~p.check THEN force_remove(c, dest, p) ELSE c

\* _copy_from_src, lines 688-713: after the staged copy
copy_src_written(s, dest, p) ==
    IF s.status # "ok" THEN FailJson(s.c, s.msg)
    ELSE Applied(apply_attributes(s.c, dest, p, TRUE), "file updated", "file updated",
                 s.bf)

SrcEntry(f, src) == f[Resolve(f, src)]

\* _copy_from_src, lines 652-686: the checksum comparison
copy_src_compare(c, dest, src, p) ==
    IF isfile(c.fs, dest) /\ ReadFile(c.fs, dest) = SrcEntry(c.fs, src).data
    THEN Applied(apply_attributes(c, dest, p, FALSE), "file already correct",
                 "file already correct", <<>>)
    ELSE IF p.check THEN Diffed(Ok(c, TRUE, "file would be updated"), p, TRUE)
    ELSE Diffed(copy_src_written(Staged(c, dest, SrcEntry(c.fs, src).data,
                                        <<SrcEntry(c.fs, src)>>, p), dest, p),
                p, TRUE)

\* _copy_from_src, lines 652-710, when _force_remove took src away with dest:
\* sha256(src) is None, dest is gone, and shutil.copy2 raises after mkstemp
copy_src_lost(c, dest) ==
    IF ~isdir(c.fs, dirname(dest)) THEN Unexpected(c)
    ELSE Unexpected(Do(Do(c, "mkstemp", c.fs), "unlink_tmp", c.fs))

copy_src_forced(c, dest, src, p) ==
    IF ~exists(c.fs, src) THEN copy_src_lost(c, dest)
    ELSE copy_src_compare(c, dest, src, p)

\* _copy_from_src, lines 641-650: the conflict at dest
copy_src_conflict(c, dest, src, p, conflict) ==
    IF conflict /\ ~p.force
    THEN FailJson(c, "Destination exists but is not a regular file")
    ELSE copy_src_forced(Forced(c, dest, p, conflict), dest, src, p)

\* _copy_from_src(dest, src, params)
copy_from_src(c, dest, src, p) ==
    IF ~exists(c.fs, src) THEN FailJson(c, "Source file not found")
    ELSE copy_src_conflict(c, dest, src, p, exists(c.fs, dest) /\ ~isfile(c.fs, dest))

\* _handle_copy, lines 611-615: after _write_content
copy_content_written(w, dest, p) ==
    IF w.status # "ok" THEN FailJson(w.c, w.msg)
    ELSE IF ~p.check
    THEN Diffed(Applied(apply_attributes(w.c, dest, p, w.changed), "content updated",
                        "content already correct", w.bf),
                p, w.changed)
    ELSE Diffed(Out(w.c, w.changed, FALSE,
                    IF w.changed THEN "content updated" ELSE "content already correct",
                    w.bf),
                p, w.changed)

\* _handle_copy, lines 609-626
copy_write(c, dest, p) ==
    IF p.content # <<>>
    THEN copy_content_written(write_content(c, dest, p.content[1], p), dest, p)
    ELSE IF p.src # <<>> THEN copy_from_src(c, dest, p.src[1], p)
    ELSE FailJson(c, "Either 'content' or 'src' must be provided")

\* _handle_copy, lines 598-607: the conflict at dest of a content write
copy_conflict(c, dest, p, conflict) ==
    IF conflict /\ ~p.force
    THEN FailJson(c, "Destination exists but is not a regular file")
    ELSE copy_write(Forced(c, dest, p, conflict), dest, p)

copy_made(c, dest, p) ==
    copy_conflict(c, dest, p,
                  p.content # <<>> /\ exists(c.fs, dest) /\ ~isfile(c.fs, dest))

\* _handle_copy(params)
handle_copy(c, p) ==
    IF p.content # <<>> /\ p.src # <<>>
    THEN FailJson(c, "'content' and 'src' are mutually exclusive")
    ELSE copy_made(makedirs(c, p.dest, p), p.dest, p)

\* the attribute applier on every node of a set (os.walk of a directory)
RECURSIVE ApplyAll(_, _, _)
ApplyAll(a, nodes, p) ==
    IF nodes = {} THEN a
    ELSE ApplyAll(apply_attributes(a.c, PathOf(CHOOSE x \in nodes : TRUE), p, a.changed),
                  nodes \ {CHOOSE x \in nodes : TRUE}, p)

\* _handle_directory, lines 726-734: recurse
directory_recurse(a, dest, p) ==
    IF p.recurse
    THEN ApplyAll(a, Under(a.c.fs, NodeOf(dest)) \ {NodeOf(dest)}, p)
    ELSE a

\* _handle_directory, lines 752-760
directory_create(c, dest, p) ==
    IF p.check THEN Ok(c, TRUE, "directory would be created")
    ELSE IF ~IsAbs(dest) THEN Unexpected(c)
    ELSE Applied(apply_attributes(Do(c, "mkdir", MakeAll(c.fs, NodeOf(dest), 0)),
                                  dest, p, TRUE),
                 "directory created", "directory created", <<>>)

\* _handle_directory, lines 741-750
directory_conflict(c, dest, p, conflict) ==
    IF conflict /\ ~p.force THEN FailJson(c, "Path exists but is not a directory")
    ELSE directory_create(Forced(c, dest, p, conflict), dest, p)

directory_made(c, dest, p) ==
    IF isdir(c.fs, dest) /\ ~islink(c.fs, dest)
    THEN Applied(directory_recurse(apply_attributes(c, dest, p, FALSE), dest, p),
                 "directory attributes changed", "directory already exists", <<>>)
    ELSE directory_conflict(c, dest, p, exists(c.fs, dest) \/ islink(c.fs, dest))

\* _handle_directory(params)
handle_directory(c, p) ==
    directory_made(makedirs(c, RStripSlash(p.dest), p), RStripSlash(p.dest), p)

\* open(dest, "a"): creates the file the path resolves to when it is missing
CanOpenAppend(f, dest) ==
    /\ IsAbs(dest)
    /\ \/ isfile(f, dest)
       \/ /\ Resolve(f, dest) \notin DOMAIN f
          /\ Resolve(f, dest) # <<>>
          /\ Parent(Resolve(f, dest)) \in DOMAIN f
          /\ f[Parent(Resolve(f, dest))].type = "dir"

open_append(c, dest) ==
    IF isfile(c.fs, dest) THEN c
    ELSE Do(c, "create", Put(c.fs, Resolve(c.fs, dest), FileEntry(c.fs, <<>>)))

\* _handle_exists, lines 784-795
exists_create(c, dest, p) ==
    IF p.check THEN Ok(c, TRUE, "file would be created")
    ELSE IF ~CanOpenAppend(c.fs, dest) THEN Unexpected(c)
    ELSE Applied(apply_attributes(open_append(c, dest), dest, p, TRUE),
                 "file created", "file created", <<>>)

\* _handle_exists, lines 774-782
exists_conflict(c, dest, p, conflict) ==
    IF conflict /\ ~p.force THEN FailJson(c, "Path exists but is not a regular file")
    ELSE exists_create(Forced(c, dest, p, conflict), dest, p)

exists_made(c, dest, p) ==
    IF isfile(c.fs, dest) /\ ~islink(c.fs, dest)
    THEN Applied(apply_attributes(c, dest, p, FALSE), "file already exists",
                 "file already exists", <<>>)
    ELSE exists_conflict(c, dest, p,
                         (exists(c.fs, dest) \/ islink(c.fs, dest)) /\ ~isfile(c.fs, dest))

\* _handle_exists(params)
handle_exists(c, p) == exists_made(makedirs(c, p.dest, p), p.dest, p)

\* _parse_time: a time string is missing, parseable or not parseable
ExplicitTime == 2

ParseFails(t) == t = "bad"

parse_time(t) == IF t = "explicit" THEN ExplicitTime ELSE Now

\* os.utime(dest, (atime, mtime)) on the file the path resolves to
utime(c, dest, t) ==
    Do(c, "utime",
       [m \in DOMAIN c.fs |->
           IF /\ c.fs[m].ino = c.fs[Resolve(c.fs, dest)].ino
              /\ c.fs[m].dev = c.fs[Resolve(c.fs, dest)].dev
           THEN [c.fs[m] EXCEPT !.mtime = t]
           ELSE c.fs[m]])

\* _handle_touch handing changed=False to the attribute applier at line 825
touch_times_quiet(c, dest, p) ==
    IF ParseFails(p.access_time) \/ ParseFails(p.modification_time)
    THEN FailJson(c, "Cannot parse time value")
    ELSE Applied(apply_attributes(utime(c, dest, parse_time(p.modification_time)),
                                  dest, p, FALSE),
                 "file touched", "file touched", <<>>)

\* _handle_touch, lines 813-827
touch_times(c, dest, p) ==
    IF ParseFails(p.access_time) \/ ParseFails(p.modification_time)
    THEN FailJson(c, "Cannot parse time value")
    ELSE Applied(apply_attributes(utime(c, dest, parse_time(p.modification_time)),
                                  dest, p, TRUE),
                 "file touched", "file touched", <<>>)

\* _handle_touch, lines 804-811
touch_made(c, dest, p) ==
    IF p.check THEN Ok(c, TRUE, "file would be touched")
    ELSE IF exists(c.fs, dest) THEN touch_times(c, dest, p)
    ELSE IF ~CanOpenAppend(c.fs, dest) THEN Unexpected(c)
    ELSE touch_times(open_append(c, dest), dest, p)

\* _handle_touch(params)
handle_touch(c, p) == touch_made(makedirs(c, p.dest, p), p.dest, p)

\* glob.glob(dest): the pattern is the basename; "*" matches every name and
\* "*.tmp" the names ending in .tmp
GlobTokens == {"*", "*.tmp"}

TmpSuffixed == {"a.tmp", "b.tmp"}

GlobMatch(pat, name) ==
    IF pat = "*" THEN TRUE
    ELSE IF pat = "*.tmp" THEN name \in TmpSuffixed
    ELSE pat = name

has_glob(dest) == \E i \in 1..Len(basename(dest)) : basename(dest)[i] \in GlobTokens

glob(f, dest) ==
    IF ~IsAbs(dest) \/ Len(basename(dest)) # 1 THEN {}
    ELSE {m \in DOMAIN f : /\ Len(m) = Len(NodeOf(dirname(dest))) + 1
                           /\ IsPrefix(NodeOf(dirname(dest)), m)
                           /\ GlobMatch(basename(dest)[1], m[Len(m)])}

\* shutil.rmtree(path) / os.unlink(path) of every node of a set
RemoveAll(f, nodes) == Del(f, UNION {Under(f, n) : n \in nodes})

\* _handle_absent with a loop of lines 876-880 that stops after the first
\* match
absent_glob_first(c, dest, p, matches) ==
    IF matches = {} THEN Ok(c, FALSE, "no paths matched glob pattern")
    ELSE IF p.check THEN Ok(c, TRUE, "path(s) would be removed")
    ELSE Ok(Do(c, "remove", RemoveAll(c.fs, {CHOOSE m \in matches : TRUE})),
            TRUE, "path(s) removed")

\* _handle_absent, lines 856-883: a glob pattern
absent_glob(c, dest, p, matches) ==
    IF matches = {} THEN Ok(c, FALSE, "no paths matched glob pattern")
    ELSE IF p.check THEN Diffed(Ok(c, TRUE, "path(s) would be removed"), p, TRUE)
    ELSE Diffed(Ok(Do(c, "remove", RemoveAll(c.fs, matches)), TRUE, "path(s) removed"),
                p, TRUE)

\* _handle_absent without the existence test of lines 886-888: os.unlink
\* of a missing path raises
handle_absent_blind(c, p) ==
    IF has_glob(p.dest) THEN absent_glob(c, p.dest, p, glob(c.fs, p.dest))
    ELSE IF p.check THEN Ok(c, TRUE, "path would be removed")
    ELSE IF ~lexists(c.fs, p.dest) \/ NodeOf(p.dest) = <<>> THEN Unexpected(c)
    ELSE Ok(Do(c, "remove", RemoveNode(c.fs, NodeOf(p.dest))), TRUE, "path removed")

\* _handle_absent without the islink test of line 917: a symlink to a
\* directory is removed together with the directory it points to
handle_absent_follow(c, p) ==
    IF has_glob(p.dest) THEN absent_glob(c, p.dest, p, glob(c.fs, p.dest))
    ELSE IF ~exists(c.fs, p.dest) /\ ~islink(c.fs, p.dest)
    THEN Ok(c, FALSE, "path does not exist")
    ELSE IF p.check THEN Ok(c, TRUE, "path would be removed")
    ELSE IF NodeOf(p.dest) = <<>>
    THEN Unexpected(Do(c, "remove", Del(c.fs, Under(c.fs, <<>>) \ {<<>>})))
    ELSE Ok(Do(c, "remove",
               RemoveNode(RemoveNode(c.fs, Resolve(c.fs, p.dest)), NodeOf(p.dest))),
            TRUE, "path removed")

\* _handle_absent(params)
handle_absent(c, p) ==
    IF has_glob(p.dest) THEN absent_glob(c, p.dest, p, glob(c.fs, p.dest))
    ELSE IF ~exists(c.fs, p.dest) /\ ~islink(c.fs, p.dest)
    THEN Ok(c, FALSE, "path does not exist")
    ELSE IF p.check THEN Diffed(Ok(c, TRUE, "path would be removed"), p, TRUE)
    ELSE IF NodeOf(p.dest) = <<>>
    \* rmtree("/") empties the tree; the root itself cannot be removed
    THEN Unexpected(Do(c, "remove", Del(c.fs, Under(c.fs, <<>>) \ {<<>>})))
    ELSE Diffed(Ok(Do(c, "remove", RemoveNode(c.fs, NodeOf(p.dest))), TRUE,
                   "path removed"),
                p, TRUE)

\* os.symlink and os.link need a free name in an existing directory
CanCreate(f, dest) ==
    /\ IsAbs(dest)
    /\ NodeOf(dest) # <<>>
    /\ NodeOf(dest) \notin DOMAIN f
    /\ Parent(NodeOf(dest)) \in DOMAIN f
    /\ f[Parent(NodeOf(dest))].type = "dir"

\* _handle_link, lines 959-966
link_create(c, dest, src, p) ==
    IF p.check THEN Ok(c, TRUE, "symlink would be created")
    ELSE IF ~CanCreate(c.fs, dest) THEN Unexpected(c)
    ELSE Applied(apply_attributes(Do(c, "symlink",
                                     Put(c.fs, NodeOf(dest), LinkEntry(c.fs, src))),
                                  dest, p, TRUE),
                 "symlink created", "symlink created", <<>>)

\* _handle_link, lines 945-957
link_conflict(c, dest, src, p, conflict) ==
    IF conflict /\ ~p.force
    THEN FailJson(c, "Path exists but is not the correct symlink")
    ELSE link_create(Forced(c, dest, p, conflict), dest, src, p)

\* _handle_link with a comparison of line 940 that resolves both paths
\* before comparing them
link_made_resolved(c, dest, src, p) ==
    IF islink(c.fs, dest)
       /\ NodeOf(c.fs[NodeOf(dest)].target) = NodeOf(src)
    THEN Applied(apply_attributes(c, dest, p, FALSE), "symlink already correct",
                 "symlink already correct", <<>>)
    ELSE link_conflict(c, dest, src, p, exists(c.fs, dest) \/ islink(c.fs, dest))

\* _handle_link, lines 938-945
link_made(c, dest, src, p) ==
    IF islink(c.fs, dest) /\ c.fs[NodeOf(dest)].target = src
    THEN Applied(apply_attributes(c, dest, p, FALSE), "symlink already correct",
                 "symlink already correct", <<>>)
    ELSE link_conflict(c, dest, src, p, exists(c.fs, dest) \/ islink(c.fs, dest))

\* _handle_link(params)
handle_link(c, p) ==
    IF p.src = <<>> \/ p.src = << <<>> >>
    THEN FailJson(c, "'src' is required for state=link")
    ELSE link_made(makedirs(c, p.dest, p), p.dest, p.src[1], p)

\* os.stat(dest).st_ino == os.stat(src).st_ino
SameInode(f, dest, src) == f[Resolve(f, dest)].ino = f[Resolve(f, src)].ino

\* _handle_hard, lines 1005-1015
hard_create(c, dest, src, p, bf) ==
    IF ~exists(c.fs, src) THEN FailJson(c, "Source file does not exist")
    ELSE IF p.check THEN Ok(c, TRUE, "hard link would be created")
    ELSE IF ~CanCreate(c.fs, dest) \/ ~isfile(c.fs, src) THEN Unexpected(c)
    ELSE Applied(apply_attributes(Do(c, "link",
                                     Put(c.fs, NodeOf(dest), SrcEntry(c.fs, src))),
                                  dest, p, TRUE),
                 "hard link created", "hard link created", bf)

\* _handle_hard, lines 998-1001: backup, then _force_remove
hard_replace(c, dest, src, p, backup) ==
    IF backup
    THEN hard_create(force_remove(backup_local(c, dest), dest, p), dest, src, p,
                     <<BackupPath(dest)>>)
    ELSE hard_create(force_remove(c, dest, p), dest, src, p, <<>>)

\* _handle_hard, lines 990-1003
hard_conflict(c, dest, src, p, conflict) ==
    IF conflict /\ ~p.force
    THEN FailJson(c, "Path exists but is not the correct hard link")
    ELSE IF conflict /\ ~p.check
    THEN hard_replace(c, dest, src, p, p.backup /\ isfile(c.fs, dest))
    ELSE hard_create(c, dest, src, p, <<>>)

hard_made(c, dest, src, p) ==
    IF exists(c.fs, dest) /\ exists(c.fs, src) /\ SameInode(c.fs, dest, src)
    THEN Applied(apply_attributes(c, dest, p, FALSE), "hard link already correct",
                 "hard link already correct", <<>>)
    ELSE hard_conflict(c, dest, src, p, exists(c.fs, dest) \/ islink(c.fs, dest))

\* _handle_hard(params)
handle_hard(c, p) ==
    IF p.src = <<>> \/ p.src = << <<>> >>
    THEN FailJson(c, "'src' is required for state=hard")
    ELSE hard_made(makedirs(c, p.dest, p), p.dest, p.src[1], p)

(***************************************************************************)
(* Text: readlines, "".join, rstrip("\n\r"), re.search of a literal.       *)
(***************************************************************************)
FirstNL(s) ==
    IF \E i \in 1..Len(s) : s[i] = NL
    THEN CHOOSE i \in 1..Len(s) : s[i] = NL /\ \A j \in 1..(i-1) : s[j] # NL
    ELSE 0

\* f.readlines() and str.splitlines(True): every line keeps its terminator
RECURSIVE readlines(_)
readlines(s) ==
    IF s = <<>> THEN <<>>
    ELSE IF FirstNL(s) = 0 THEN <<s>>
    ELSE <<SubSeq(s, 1, FirstNL(s))>> \o readlines(SubSeq(s, FirstNL(s) + 1, Len(s)))

\* "".join(lines)
RECURSIVE join(_)
join(lines) == IF lines = <<>> THEN <<>> ELSE Head(lines) \o join(Tail(lines))

RECURSIVE rstrip(_)
rstrip(s) == IF Len(s) > 0 /\ s[Len(s)] = NL THEN rstrip(SubSeq(s, 1, Len(s) - 1)) ELSE s

endswith_nl(s) == Len(s) > 0 /\ s[Len(s)] = NL

with_nl(s) == IF endswith_nl(s) THEN s ELSE Append(s, NL)

\* re.compile(pat).search(text) for a pattern without metacharacters
search(pat, text) ==
    \E i \in 1..(Len(text) - Len(pat) + 1) : SubSeq(text, i, i + Len(pat) - 1) = pat

\* index of the last line the pattern matches, 0 when none does
last_match_idx(lines, pat) ==
    IF \E i \in 1..Len(lines) : search(pat, lines[i])
    THEN CHOOSE i \in 1..Len(lines) :
            search(pat, lines[i]) /\ \A j \in (i+1)..Len(lines) : ~search(pat, lines[j])
    ELSE 0

\* lines[i:i] = new (i counts from 0)
InsertAt(lines, i, new) == SubSeq(lines, 1, i) \o new \o SubSeq(lines, i + 1, Len(lines))

\* lines[-1] gets a newline when it lacks one
FixLast(lines) ==
    IF lines # <<>> /\ ~endswith_nl(lines[Len(lines)])
    THEN [lines EXCEPT ![Len(lines)] = Append(lines[Len(lines)], NL)]
    ELSE lines

BOF == <<"B", "O", "F">>

EOF == <<"E", "O", "F">>

\* the insertion branch of _lineinfile_present (lines 1132-1163)
lineinfile_insert(lines, line, insertafter, insertbefore) ==
    IF insertbefore # <<>>
    THEN IF insertbefore[1] = BOF THEN InsertAt(lines, 0, <<with_nl(line)>>)
         ELSE LET i == last_match_idx(lines, insertbefore[1])
              IN  IF i # 0 THEN InsertAt(lines, i - 1, <<with_nl(line)>>)
                  ELSE Append(lines, with_nl(line))
    ELSE IF insertafter # <<>> /\ insertafter[1] # EOF
    THEN LET i == last_match_idx(lines, insertafter[1])
         IN  IF i # 0 THEN InsertAt(lines, i, <<with_nl(line)>>)
             ELSE Append(lines, with_nl(line))
    ELSE Append(FixLast(lines), with_nl(line))

\* _lineinfile_present with a search loop of lines 1114-1116 that stops at
\* the first match
lineinfile_present_first(lines, line, regexp, insertafter, insertbefore) ==
    IF regexp # <<>> /\ regexp[1] # <<>>
    THEN IF \E i \in 1..Len(lines) : search(regexp[1], lines[i])
         THEN LET i == CHOOSE k \in 1..Len(lines) :
                          /\ search(regexp[1], lines[k])
                          /\ \A j \in 1..(k - 1) : ~search(regexp[1], lines[j])
              IN  IF rstrip(lines[i]) # rstrip(line)
                  THEN [lines EXCEPT ![i] = with_nl(line)]
                  ELSE lines
         ELSE lineinfile_insert(lines, line, insertafter, insertbefore)
    ELSE IF \E i \in 1..Len(lines) : rstrip(lines[i]) = rstrip(line)
    THEN lines
    ELSE lineinfile_insert(lines, line, insertafter, insertbefore)

\* _lineinfile_present(lines, line, regexp, insertafter, insertbefore)
lineinfile_present(lines, line, regexp, insertafter, insertbefore) ==
    IF regexp # <<>> /\ regexp[1] # <<>>
    THEN LET i == last_match_idx(lines, regexp[1])
         IN  IF i # 0
             THEN IF rstrip(lines[i]) # rstrip(line)
                  THEN [lines EXCEPT ![i] = with_nl(line)]
                  ELSE lines
             ELSE lineinfile_insert(lines, line, insertafter, insertbefore)
    ELSE IF \E i \in 1..Len(lines) : rstrip(lines[i]) = rstrip(line)
    THEN lines
    ELSE lineinfile_insert(lines, line, insertafter, insertbefore)

\* _lineinfile_absent, lines 1172-1176: the lines that stay
KeepLine(ln, line, regexp) ==
    IF regexp # <<>> /\ regexp[1] # <<>> THEN ~search(regexp[1], ln)
    ELSE IF line # <<>> THEN rstrip(ln) # rstrip(line[1])
    ELSE TRUE

RECURSIVE lineinfile_absent(_, _, _)
\* _lineinfile_absent(lines, line, regexp)
lineinfile_absent(lines, line, regexp) ==
    IF lines = <<>> THEN <<>>
    ELSE (IF KeepLine(Head(lines), line, regexp) THEN <<Head(lines)>> ELSE <<>>)
         \o lineinfile_absent(Tail(lines), line, regexp)

\* lines 1091-1095 and 1252-1256: after _write_content
lines_written(w, dest, p, what) ==
    IF w.status # "ok" THEN FailJson(w.c, w.msg)
    ELSE Applied(apply_attributes(w.c, dest, p, TRUE), what \o " updated",
                 what \o " updated", w.bf)

\* the part of the line and block handlers after the edit (lines 1068-1095
\* and 1229-1256)
write_lines(c, dest, lines, original_lines, p, what) ==
    IF lines = original_lines
    THEN Applied(apply_attributes(c, dest, p, FALSE), what \o " attributes changed",
                 what \o " already correct", <<>>)
    ELSE IF p.check THEN Diffed(Ok(c, TRUE, what \o " would be updated"), p, TRUE)
    ELSE Diffed(lines_written(write_content(c, dest, join(lines), p), dest, p, what),
                p, TRUE)

\* _handle_lineinfile, lines 1061-1066: the edit
line_edit(c, dest, original_lines, p) ==
    write_lines(c, dest,
                IF p.line_state = "present"
                THEN lineinfile_present(original_lines, p.line[1], p.regexp,
                                        p.insertafter, p.insertbefore)
                ELSE lineinfile_absent(original_lines, p.line, p.regexp),
                original_lines, p, "line")

\* _handle_lineinfile, lines 1051-1059: read existing content
line_read(c, dest, p) ==
    IF isfile(c.fs, dest) THEN line_edit(c, dest, readlines(ReadFile(c.fs, dest)), p)
    ELSE IF p.line_state = "absent"
    THEN Ok(c, FALSE, "file does not exist, nothing to remove")
    ELSE line_edit(c, dest, <<>>, p)

\* _handle_lineinfile(params)
handle_lineinfile(c, p) ==
    IF p.insertafter # <<>> /\ p.insertbefore # <<>>
    THEN FailJson(c, "'insertafter' and 'insertbefore' are mutually exclusive")
    ELSE IF p.line_state = "present" /\ p.line = <<>>
    THEN FailJson(c, "'line' is required when line_state=present")
    ELSE IF p.line_state = "absent" /\ p.line = <<>> /\ p.regexp = <<>>
    THEN FailJson(c, "'line' or 'regexp' is required when line_state=absent")
    ELSE line_read(makedirs(c, p.dest, p), p.dest, p)

\* marker.replace("{mark}", mark): the template is a sequence of characters
\* and of the token "{mark}"
MARK == "{mark}"

RECURSIVE replace_mark(_, _)
replace_mark(marker, mark) ==
    IF marker = <<>> THEN <<>>
    ELSE (IF Head(marker) = MARK THEN mark ELSE <<Head(marker)>>)
         \o replace_mark(Tail(marker), mark)

\* the marker search of _blockinfile_present and _blockinfile_absent: the
\* loop over the lines, from line i on, with begin_idx so far (0: None).
\* Returns <<begin_idx, end_idx>>.
RECURSIVE find_markers(_, _, _, _, _)
find_markers(lines, begin_marker, end_marker, i, begin_idx) ==
    IF i > Len(lines) THEN <<begin_idx, 0>>
    ELSE LET b == IF rstrip(lines[i]) = begin_marker THEN i ELSE begin_idx
         IN  IF rstrip(lines[i]) = end_marker /\ b # 0 THEN <<b, i>>
             ELSE find_markers(lines, begin_marker, end_marker, i + 1, b)

block_lines(block, begin_marker, end_marker) ==
    LET blk == IF block # <<>> /\ ~endswith_nl(block) THEN Append(block, NL) ELSE block
    IN  <<Append(begin_marker, NL)>> \o readlines(blk) \o <<Append(end_marker, NL)>>

\* _blockinfile_present(lines, block, begin_marker, end_marker, insertafter,
\* insertbefore)
blockinfile_present(lines, block, begin_marker, end_marker, insertafter, insertbefore) ==
    LET new == block_lines(block, begin_marker, end_marker)
        m   == find_markers(lines, begin_marker, end_marker, 1, 0)
    IN  IF m[1] # 0 /\ m[2] # 0
        THEN SubSeq(lines, 1, m[1] - 1) \o new \o SubSeq(lines, m[2] + 1, Len(lines))
        ELSE IF insertbefore # <<>>
        THEN IF insertbefore[1] = BOF THEN InsertAt(lines, 0, new)
             ELSE LET i == last_match_idx(lines, insertbefore[1])
                  IN  IF i # 0 THEN InsertAt(lines, i - 1, new)
                      ELSE FixLast(lines) \o new
        ELSE IF insertafter # <<>> /\ insertafter[1] # EOF
        THEN LET i == last_match_idx(lines, insertafter[1])
             IN  IF i # 0 THEN InsertAt(lines, i, new)
                 ELSE FixLast(lines) \o new
        ELSE FixLast(lines) \o new

\* _blockinfile_absent(lines, begin_marker, end_marker)
blockinfile_absent(lines, begin_marker, end_marker) ==
    LET m == find_markers(lines, begin_marker, end_marker, 1, 0)
    IN  IF m[1] # 0 /\ m[2] # 0
        THEN SubSeq(lines, 1, m[1] - 1) \o SubSeq(lines, m[2] + 1, Len(lines))
        ELSE lines

\* _handle_blockinfile, lines 1220-1227: the edit
block_edit(c, dest, original_lines, p, begin_marker, end_marker) ==
    write_lines(c, dest,
                IF p.block_state = "present"
                THEN blockinfile_present(original_lines, p.block[1], begin_marker,
                                         end_marker, p.insertafter, p.insertbefore)
                ELSE blockinfile_absent(original_lines, begin_marker, end_marker),
                original_lines, p, "block")

\* _handle_blockinfile, lines 1211-1218: read existing content
block_read(c, dest, p, begin_marker, end_marker) ==
    IF isfile(c.fs, dest)
    THEN block_edit(c, dest, readlines(ReadFile(c.fs, dest)), p, begin_marker, end_marker)
    ELSE IF p.block_state = "absent"
    THEN Ok(c, FALSE, "file does not exist, nothing to remove")
    ELSE block_edit(c, dest, <<>>, p, begin_marker, end_marker)

\* _handle_blockinfile(params)
handle_blockinfile(c, p) ==
    IF p.insertafter # <<>> /\ p.insertbefore # <<>>
    THEN FailJson(c, "'insertafter' and 'insertbefore' are mutually exclusive")
    ELSE IF p.block_state = "present" /\ p.block = <<>>
    THEN FailJson(c, "'block' is required when block_state=present")
    ELSE block_read(makedirs(c, p.dest, p), p.dest, p,
                    replace_mark(p.marker, p.marker_begin),
                    replace_mark(p.marker, p.marker_end))

(***************************************************************************)
(* run(): the creates/removes guards and the dispatch.                     *)
(***************************************************************************)
Skipped(c, msg) ==
    [fs |-> c.fs, ops |-> c.ops, changed |-> FALSE, failed |-> FALSE,
     skipped |-> TRUE, msg |-> msg, backup_file |-> <<>>, diff |-> FALSE]

\* _check_creates_removes(params): TRUE when the call is skipped
check_creates_removes(f, p) ==
    \/ p.creates # <<>> /\ p.creates[1] # <<>> /\ exists(f, p.creates[1])
    \/ p.removes # <<>> /\ p.removes[1] # <<>> /\ ~exists(f, p.removes[1])

\* fsbuilder_common.py: the shared lists of states
VALID_STATES ==
    <<"template", "copy", "directory", "exists", "touch", "absent", "link", "hard",
      "lineinfile", "blockinfile">>

FILE_CONTENT_STATES == <<"template", "copy", "lineinfile", "blockinfile">>

NO_VALIDATE_STATES == <<"directory", "absent", "link", "hard", "exists", "touch">>

\* STATE_HANDLERS with the entry of template left out
STATE_HANDLERS_short ==
    [copy |-> "_handle_copy", directory |-> "_handle_directory",
     exists |-> "_handle_exists", touch |-> "_handle_touch", absent |-> "_handle_absent",
     link |-> "_handle_link", hard |-> "_handle_hard",
     lineinfile |-> "_handle_lineinfile", blockinfile |-> "_handle_blockinfile"]

\* FSBuilder.STATE_HANDLERS: the handler's name for each state
STATE_HANDLERS ==
    [copy |-> "_handle_copy", template |-> "_handle_copy",
     directory |-> "_handle_directory", exists |-> "_handle_exists",
     touch |-> "_handle_touch", absent |-> "_handle_absent", link |-> "_handle_link",
     hard |-> "_handle_hard", lineinfile |-> "_handle_lineinfile",
     blockinfile |-> "_handle_blockinfile"]

\* getattr(self, handler_name)(params); getattr raises for a name that is
\* no method of FSBuilder
call_handler(handler_name, c, p) ==
    CASE handler_name = "_handle_copy"        -> handle_copy(c, p)
      [] handler_name = "_handle_directory"   -> handle_directory(c, p)
      [] handler_name = "_handle_exists"      -> handle_exists(c, p)
      [] handler_name = "_handle_touch"       -> handle_touch(c, p)
      [] handler_name = "_handle_absent"      -> handle_absent(c, p)
      [] handler_name = "_handle_link"        -> handle_link(c, p)
      [] handler_name = "_handle_hard"        -> handle_hard(c, p)
      [] handler_name = "_handle_lineinfile"  -> handle_lineinfile(c, p)
      [] handler_name = "_handle_blockinfile" -> handle_blockinfile(c, p)
      [] OTHER -> FailJson(c, "Unexpected error: no attribute")

\* run(), lines 398-405: the handler looked up by the state's name
dispatch(c, p) ==
    IF p.state \notin DOMAIN STATE_HANDLERS THEN FailJson(c, "Unknown state")
    ELSE call_handler(STATE_HANDLERS[p.state], c, p)

\* run() without the creates/removes guards of lines 393-396
run_unguarded(f, p) == dispatch(Ctx(f), p)

\* FSBuilder.run() under main()
run(f, p) ==
    IF check_creates_removes(f, p) THEN Skipped(Ctx(f), "Skipped")
    ELSE dispatch(Ctx(f), p)

(***************************************************************************)
(* The paths and the initial filesystems of the model.                     *)
(***************************************************************************)
DEST == <<SL, "d", SL, "f">>

SRC == <<SL, "s">>

NOWHERE == <<SL, "nx">>

ETC == <<SL, "etc">>

\* a file inside dest, when dest is a directory
INSIDE == <<SL, "d", SL, "f", SL, "c">>

\* what state=absent is asked to remove: dest, nothing, the root (also
\* written with repeated slashes), /etc, a missing path and a file under
\* /etc, and the glob patterns /*, /etc/*, /d/*, /etc/*.tmp and /d/*.tmp
AbsentDests ==
    {DEST, <<>>, <<SL>>, <<SL, SL, SL>>, ETC, <<SL, "etc", SL, "nx">>,
     <<SL, "etc", SL, "x">>,
     <<SL, "*">>, <<SL, "etc", SL, "*">>, <<SL, "d", SL, "*">>,
     <<SL, "etc", SL, "*.tmp">>, <<SL, "d", SL, "*.tmp">>}

Entry(type, data, target, ino) ==
    [type |-> type, data |-> data, target |-> target, mode |-> 0,
     ino |-> ino, dev |-> 0, mtime |-> 0]

\* the part of the filesystem every initial state has: /, /etc, /etc/x
\* and /etc/a.tmp
BaseFs ==
    (<<>> :> Entry("dir", <<>>, <<>>, 1))
    @@ (<<"etc">> :> Entry("dir", <<>>, <<>>, 2))
    @@ (<<"etc", "x">> :> Entry("file", <<"a", NL>>, <<>>, 3))
    @@ (<<"etc", "a.tmp">> :> Entry("file", <<"b">>, <<>>, 4))

Contents ==
    { <<>>,
      <<"b">>,
      <<"a", NL>>,
      <<"b", NL, "a">>,
      <<"a", NL, "b", NL>>,
      <<"#", "B", NL, "a", NL, "#", "E", NL>>,
      <<"#", "B", NL, "b", NL, "#", "E", NL, "a">> }

InitContents == {c \in Contents : Len(c) <= MaxInitLen}

\* what is at dest: nothing, a file, a directory with a child, a symlink, a
\* hard link of src, or a file of another device that has src's inode number
DestKinds ==
    {<<"none", <<>> >>, <<"dir", <<>> >>, <<"hard", <<>> >>, <<"xdev", <<>> >>}
    \cup {<<"file", c>> : c \in InitContents}
    \cup {<<"link", t>> : t \in {SRC, NOWHERE, ETC}}

WithDest(f, k) ==
    CASE k[1] = "none" -> f
      [] k[1] = "file" -> Put(f, NodeOf(DEST), Entry("file", k[2], <<>>, 11))
      [] k[1] = "link" -> Put(f, NodeOf(DEST), Entry("link", <<>>, k[2], 11))
      [] k[1] = "hard" -> Put(f, NodeOf(DEST), Entry("file", <<"a", NL>>, <<>>, 20))
      [] k[1] = "xdev" -> Put(f, NodeOf(DEST),
                              [Entry("file", <<"a", NL>>, <<>>, 20) EXCEPT !.dev = 1])
      [] k[1] = "dir"  -> Put(Put(f, NodeOf(DEST), Entry("dir", <<>>, <<>>, 11)),
                              Append(NodeOf(DEST), "c"), Entry("file", <<"b">>, <<>>, 12))

InitFs ==
    LET withD(f)   == Put(f, <<"d">>, Entry("dir", <<>>, <<>>, 10))
        withS(f)   == Put(f, NodeOf(SRC), Entry("file", <<"a", NL>>, <<>>, 20))
        withOld(f) == Put(f, NodeOf(OldPath(DEST)), Entry("file", <<"b">>, <<>>, 13))
        tops       == {BaseFs, withS(BaseFs)}
    IN  tops
        \cup {WithDest(withD(t), k) : t \in tops, k \in DestKinds}
        \cup {withOld(WithDest(withD(t), k)) : t \in tops, k \in DestKinds}

NoResult ==
    [changed |-> FALSE, failed |-> FALSE, skipped |-> FALSE, msg |-> "",
     backup_file |-> <<>>, diff |-> FALSE]

BaseParams ==
    [state |-> "", dest |-> DEST, check |-> FALSE, makedirs |-> FALSE, mode |-> <<>>,
     creates |-> <<>>, removes |-> <<>>, src |-> <<>>, content |-> <<>>,
     force |-> FALSE, force_backup |-> FALSE, backup |-> FALSE, validate |-> "none",
     recurse |-> FALSE, access_time |-> "none", modification_time |-> "none",
     line |-> <<>>, regexp |-> <<>>, insertafter |-> <<>>, insertbefore |-> <<>>,
     line_state |-> "present", block |-> <<>>, marker |-> <<"#", MARK>>,
     marker_begin |-> <<"B">>, marker_end |-> <<"E">>, block_state |-> "present",
     diff |-> FALSE]

\* the options every state takes: check mode, makedirs and mode, or check
\* mode and a creates/removes guard
Common ==
    {[BaseParams EXCEPT !.check = ck, !.makedirs = md, !.mode = mo] :
        ck \in BOOLEAN, md \in BOOLEAN, mo \in {<<>>, <<1>>}}
    \cup {[BaseParams EXCEPT !.check = ck, !.creates = g[1], !.removes = g[2]] :
        ck \in BOOLEAN, g \in {<< <<SRC>>, <<>> >>, << <<>>, <<SRC>> >>}}

Forces == {<<FALSE, FALSE>>, <<TRUE, FALSE>>, <<TRUE, TRUE>>}

Validates == {"none", "ok", "fail", "reject", "noplaceholder", "bare"}

\* validate and backup of the line and block states
ValidateBackups ==
    {<<"none", FALSE>>, <<"ok", TRUE>>, <<"fail", TRUE>>, <<"noplaceholder", FALSE>>}

\* line_state/block_state and insertbefore (read only when present)
Edits == {<<"present", <<>> >>, <<"present", <<BOF>> >>, <<"absent", <<>> >>}

Init ==
    /\ fs \in InitFs
    /\ fs0 = fs
    /\ params = BaseParams
    /\ res = NoResult
    /\ ops = <<>>
    /\ phase = "init"
    /\ first = NoResult

\* the result main() hands to exit_json or fail_json
ResultOf(o) ==
    [changed |-> o.changed, failed |-> o.failed, skipped |-> o.skipped,
     msg |-> o.msg, backup_file |-> o.backup_file, diff |-> o.diff]

\* one run of main() with arguments p, its outcome o recorded
Record(o, p, ph, fst) ==
    /\ fs' = o.fs
    /\ fs0' = fs
    /\ params' = p
    /\ res' = ResultOf(o)
    /\ ops' = o.ops
    /\ phase' = ph
    /\ first' = fst

\* main(): one run of the module with arguments p
Invoke(p) == Record(run(fs, p), p, "ran", first)

Copy ==
    /\ phase = "init"
    /\ \E b \in Common, sc \in {<< <<>>, <<<<"a", NL>>>> >>, << <<>>, <<<<"b">>>> >>,
                            << <<SRC>>, <<>> >>, << <<INSIDE>>, <<>> >>},
       fo \in Forces, bk \in BOOLEAN, v \in Validates, df \in BOOLEAN,
       st \in {"copy", "template"} :
        /\ df => (~bk /\ v \in {"none", "fail"})
        /\ st = "template" => (~fo[1] /\ ~bk /\ v = "none" /\ ~df)
        /\ Invoke([b EXCEPT !.state = st, !.src = sc[1], !.content = sc[2],
                            !.force = fo[1], !.force_backup = fo[2], !.backup = bk,
                            !.validate = v, !.diff = df])

Directory ==
    /\ phase = "init"
    /\ \E b \in Common, fo \in Forces, rc \in BOOLEAN,
       d \in {DEST, Append(DEST, SL), <<SL>>} :
        /\ Invoke([b EXCEPT !.state = "directory", !.dest = d, !.force = fo[1],
                            !.force_backup = fo[2], !.recurse = rc])

ExistsState ==
    /\ phase = "init"
    /\ \E b \in Common, fo \in Forces :
        /\ Invoke([b EXCEPT !.state = "exists", !.force = fo[1], !.force_backup = fo[2]])

Touch ==
    /\ phase = "init"
    /\ \E b \in Common, at \in {"none", "bad"}, mt \in {"none", "explicit", "bad"} :
        /\ Invoke([b EXCEPT !.state = "touch", !.access_time = at,
                            !.modification_time = mt])

Absent ==
    /\ phase = "init"
    /\ \E b \in Common, d \in AbsentDests, df \in BOOLEAN :
        /\ Invoke([b EXCEPT !.state = "absent", !.dest = d, !.diff = df])

Link ==
    /\ phase = "init"
    /\ \E b \in Common, fo \in Forces, t \in {SRC, NOWHERE, <<SL, SL, "s">>} :
        /\ Invoke([b EXCEPT !.state = "link", !.src = <<t>>, !.force = fo[1],
                            !.force_backup = fo[2]])

Hard ==
    /\ phase = "init"
    /\ \E b \in Common, fo \in Forces, bk \in BOOLEAN :
        /\ Invoke([b EXCEPT !.state = "hard", !.src = <<SRC>>, !.force = fo[1],
                            !.force_backup = fo[2], !.backup = bk])

Lineinfile ==
    /\ phase = "init"
    /\ \E b \in Common, ln \in {<<"a">>, <<"b">>}, re \in {<<>>, <<<<"a">>>>},
       ed \in Edits, vb \in ValidateBackups, df \in BOOLEAN :
        /\ df => vb[1] \in {"none", "fail"}
        /\ Invoke([b EXCEPT !.state = "lineinfile", !.line = <<ln>>, !.regexp = re,
                            !.insertbefore = ed[2], !.line_state = ed[1],
                            !.backup = vb[2], !.validate = vb[1], !.diff = df])

Blockinfile ==
    /\ phase = "init"
    /\ \E b \in Common, ed \in Edits, vb \in ValidateBackups, df \in BOOLEAN :
        /\ df => vb[1] \in {"none", "fail"}
        /\ Invoke([b EXCEPT !.state = "blockinfile", !.block = <<<<"a">>>>,
                            !.block_state = ed[1], !.insertbefore = ed[2],
                            !.backup = vb[2], !.validate = vb[1], !.diff = df])

\* the same task run a second time
Rerun == phase = "ran" /\ Record(run(fs, params), params, "reran", res)

Next ==
    \/ Copy
    \/ Directory
    \/ ExistsState
    \/ Touch
    \/ Absent
    \/ Link
    \/ Hard
    \/ Lineinfile
    \/ Blockinfile
    \/ Rerun

Spec == Init /\ [][Next]_vars

(***************************************************************************)
(* The line and block edits on their own: dest is missing (with or without *)
(* its directory) or a file of up to MaxLines lines, with or without a     *)
(* newline at its end, and the line, regexp, block, insertion hints and    *)
(* makedirs vary.                                                          *)
(***************************************************************************)
\* the file contents: up to MaxLines of the lines a, b, #B and #E, the last
\* one with or without its newline
TextContents ==
    LET lineset == {<<"a", NL>>, <<"b", NL>>, <<"#", "B", NL>>, <<"#", "E", NL>>}
        seqs    == UNION {[1..n -> lineset] : n \in 0..MaxLines}
    IN  {join(l) : l \in seqs} \cup {rstrip(join(l)) : l \in seqs}

\* <<insertafter, insertbefore>>
Hints ==
    {<< <<>>, <<>> >>, << <<>>, <<BOF>> >>, << <<>>, <<<<"a">>>> >>,
     << <<>>, <<<<"b">>>> >>, << <<EOF>>, <<>> >>, << <<<<"a">>>>, <<>> >>,
     << <<<<"b">>>>, <<>> >>, << <<<<"a">>>>, <<<<"b">>>> >>}

TextInit ==
    /\ fs \in LET base == Put(BaseFs, <<"d">>, Entry("dir", <<>>, <<>>, 10))
              IN  {BaseFs, base} \cup {Put(base, NodeOf(DEST), Entry("file", c, <<>>, 11)) :
                                  c \in TextContents}
    /\ fs0 = fs
    /\ params = BaseParams
    /\ res = NoResult
    /\ ops = <<>>
    /\ phase = "init"
    /\ first = NoResult

LineEdit ==
    /\ phase = "init"
    /\ \E ln \in {<<>>, <<<<"a">>>>, <<<<"b">>>>, <<<<"a", NL>>>>},
       re \in {<<>>, <<<<"a">>>>, <<<<"b">>>>},
       h \in Hints, st \in {"present", "absent"}, md \in BOOLEAN :
        /\ Invoke([BaseParams EXCEPT !.state = "lineinfile", !.line = ln,
                                     !.makedirs = md,
                                     !.regexp = re, !.insertafter = h[1],
                                     !.insertbefore = h[2], !.line_state = st])

BlockEdit ==
    /\ phase = "init"
    /\ \E bl \in {<<>>, <<<<>>>>, <<<<"a">>>>, <<<<"a", NL, "b">>>>, <<<<"#", "E", NL>>>>},
       h \in Hints, st \in {"present", "absent"}, md \in BOOLEAN :
        /\ Invoke([BaseParams EXCEPT !.state = "blockinfile", !.block = bl,
                                     !.makedirs = md,
                                     !.insertafter = h[1], !.insertbefore = h[2],
                                     !.block_state = st])

TextNext ==
    \/ LineEdit
    \/ BlockEdit
    \/ Rerun

TextSpec == TextInit /\ [][TextNext]_vars

(***************************************************************************)
(* The controller-side action plugin.  A dictionary is a function from its *)
(* keys; a value Python tests with isinstance carries its kind.  The task  *)
(* is [args, item, notify]: the task's arguments, the loop item and the    *)
(* task-level notify.                                                      *)
(***************************************************************************)
\* dict.get(k) in the place of dict.pop(k, None): the key stays
Pop_kept(d, k) == d

\* dict.pop(k, None), the dictionary that is left
Pop(d, k) == [x \in (DOMAIN d) \ {k} |-> d[x]]

Bool(b) == [kind |-> "bool", val |-> b]

Str(s) == [kind |-> "str", val |-> s]

List(l) == [kind |-> "list", val |-> l]

\* a value of no accepted type (an integer)
Num(n) == [kind |-> "int", val |-> n]

\* the task variables: v is defined, u is not
VAR == "{{v}}"

UNDEF == "{{u}}"

\* Templar.template() on a text: every {{v}} replaced by its value, an
\* undefined variable raises
templar_raises(t) == \E i \in 1..Len(t) : t[i] = UNDEF

templar(t) == [i \in 1..Len(t) |-> IF t[i] = VAR THEN "a" ELSE t[i]]

\* Templar.template() on '{{ expr }}' for the expressions of the model; any
\* other expression raises
templar_expr(e) ==
    CASE e = "enabled"      -> Bool(TRUE)
      [] e = "disabled"     -> Bool(FALSE)
      [] e = "'yes'"        -> Str("yes")
      [] e = "'No '"        -> Str("No ")
      [] e = "''"           -> Str("")
      [] e = "name"         -> Str("web")
      [] e = "0"            -> Num(0)
      [] e = "2"            -> Num(2)
      [] OTHER              -> [kind |-> "raise", val |-> e]

\* _evaluate_when(when_expr): "T", "F", or "X" when it raises
RECURSIVE evaluate_when(_)
evaluate_when(w) ==
    LET result == templar_expr(w.val)
        \* result.strip().lower(), for the strings of the model
        lower  == IF result.val = "No " THEN "no" ELSE result.val
    IN  CASE w.kind = "bool" -> IF w.val THEN "T" ELSE "F"
          [] w.kind = "list" ->
                IF w.val = <<>> THEN "T"
                ELSE IF evaluate_when(Head(w.val)) = "T"
                     THEN evaluate_when(List(Tail(w.val)))
                     ELSE evaluate_when(Head(w.val))
          [] result.kind = "raise" -> "X"
          [] result.kind = "bool" -> IF result.val THEN "T" ELSE "F"
          [] result.kind = "str" ->
                IF lower \in {"true", "yes", "1"} THEN "T"
                ELSE IF lower \in {"false", "no", "0", ""} THEN "F"
                ELSE "T"
          [] OTHER -> IF result.val # 0 THEN "T" ELSE "F"

\* _merge_loop_params(): the loop item, when it is a dictionary, over the
\* task's arguments
merge_loop_params(task) ==
    IF task.item.kind = "dict" THEN task.item.val @@ task.args ELSE task.args

\* the files _find_needle() finds on the controller, with their text
ControllerFiles ==
    [templates |-> (<<"f", ".j2">> :> <<"b", VAR, NL>>)
                   @@ (<<"t">> :> <<VAR>>) @@ (<<"bad", ".j2">> :> <<UNDEF>>),
     files     |-> (<<"f">> :> <<"b">>) @@ (<<"s">> :> <<"a", NL>>)]

TEMPLATE_ONLY == {"newline_sequence", "trim_blocks", "lstrip_blocks", "output_encoding"}

Prepared(raised, args, f) == [raised |-> raised, args |-> args, fs |-> f]

\* _process_template_content(): the content rendered, state=copy, the
\* template-only options removed
process_template_content(args, f) ==
    IF templar_raises(args.content) THEN Prepared(TRUE, args, f)
    ELSE Prepared(FALSE,
                  [k \in (DOMAIN args) \ TEMPLATE_ONLY |->
                      CASE k = "content" -> templar(args.content)
                        [] k = "state"   -> "copy"
                        [] OTHER         -> args[k]]
                  @@ ("state" :> "copy"), f)

\* _process_template_file() without line 236: src stays among the arguments
process_template_file_src(args, f) ==
    LET dest == IF "dest" \in DOMAIN args THEN args.dest ELSE <<>>
        base == basename(dest)
        src  == IF "src" \in DOMAIN args /\ args.src # <<>> THEN args.src
                ELSE Append(base, ".j2")
    IN  IF src \notin DOMAIN ControllerFiles.templates
           \/ templar_raises(ControllerFiles.templates[src])
        THEN Prepared(TRUE, args, f)
        ELSE Prepared(FALSE,
                      ("content" :> templar(ControllerFiles.templates[src]))
                      @@ ("state" :> "copy")
                      @@ [k \in (DOMAIN args) \ TEMPLATE_ONLY |-> args[k]],
                      f)

\* _process_template_file(): src given or <basename of dest>.j2, a dest
\* ending in '/' completed, the template found, read and rendered
process_template_file(args, f) ==
    LET dest == IF "dest" \in DOMAIN args THEN args.dest ELSE <<>>
        base == basename(dest)
        src  == IF "src" \in DOMAIN args /\ args.src # <<>> THEN args.src
                ELSE IF base # <<>> /\ base[Len(base)] = ".j2" THEN base
                ELSE Append(base, ".j2")
        name == IF basename(src)[Len(basename(src))] = ".j2"
                THEN SubSeq(basename(src), 1, Len(basename(src)) - 1)
                ELSE basename(src)
        dst  == IF dest # <<>> /\ dest[Len(dest)] = SL THEN dest \o name ELSE dest
        moved == IF dst # dest THEN ("dest" :> dst) @@ args ELSE args
    IN  IF src \notin DOMAIN ControllerFiles.templates
           \/ templar_raises(ControllerFiles.templates[src])
        THEN Prepared(TRUE, moved, f)
        ELSE Prepared(FALSE,
                      ("content" :> templar(ControllerFiles.templates[src]))
                      @@ ("state" :> "copy")
                      @@ [k \in (DOMAIN moved) \ (TEMPLATE_ONLY \cup {"src"}) |-> moved[k]],
                      f)

\* _process_template()
process_template(args, f) ==
    IF "content" \in DOMAIN args /\ "src" \in DOMAIN args THEN Prepared(TRUE, args, f)
    ELSE IF "content" \in DOMAIN args THEN process_template_content(args, f)
    ELSE process_template_file(args, f)

\* the remote temporary directory of the connection
TMPDIR == <<SL, "tmp">>

\* _process_copy(): content or remote_src pass through; a controller file
\* is transferred to the remote temporary directory and src points at it
process_copy(args, f) ==
    LET dest == IF "dest" \in DOMAIN args THEN args.dest ELSE <<>>
        src  == IF "src" \in DOMAIN args THEN args.src ELSE basename(dest)
        dst  == IF dest # <<>> /\ dest[Len(dest)] = SL THEN dest \o basename(src) ELSE dest
        moved == IF dst # dest THEN ("dest" :> dst) @@ args ELSE args
        tmp_src == TMPDIR \o <<SL>> \o basename(src)
    IN  IF "content" \in DOMAIN args THEN Prepared(FALSE, args, f)
        ELSE IF "remote_src" \in DOMAIN args /\ args.remote_src THEN Prepared(FALSE, args, f)
        ELSE IF src \notin DOMAIN ControllerFiles.files THEN Prepared(TRUE, moved, f)
        ELSE Prepared(FALSE, ("src" :> tmp_src) @@ moved,
                      Put(f, NodeOf(tmp_src), FileEntry(f, ControllerFiles.files[src])))

\* the module's parameters, from the arguments passed to it
ModuleParams(args) ==
    [BaseParams EXCEPT
        !.state    = IF "state" \in DOMAIN args THEN args.state ELSE "template",
        !.dest     = IF "dest" \in DOMAIN args THEN args.dest ELSE <<>>,
        !.src      = IF "src" \in DOMAIN args THEN <<args.src>> ELSE <<>>,
        !.content  = IF "content" \in DOMAIN args THEN <<args.content>> ELSE <<>>,
        !.force    = "force" \in DOMAIN args /\ args.force,
        !.makedirs = "makedirs" \in DOMAIN args /\ args.makedirs]

\* _execute_module(): the module run on the remote host; AnsibleModule
\* rejects an option its argument spec does not know (of those the model
\* uses it knows the seven below), a missing dest, and content with src
execute_module(f, args) ==
    IF \/ (DOMAIN args) \ {"dest", "src", "state", "content", "remote_src", "force",
                           "makedirs"} # {}
       \/ "dest" \notin DOMAIN args
       \/ {"content", "src"} \subseteq DOMAIN args
    THEN FailJson(Ctx(f), "Unsupported parameters")
    ELSE run(f, ModuleParams(args))

\* the loop of lines 426-428: each handler appended unless already in merged
RECURSIVE merge_notify(_, _)
merge_notify(merged, notify_list) ==
    IF notify_list = <<>> THEN merged
    ELSE merge_notify(IF \E j \in 1..Len(merged) : merged[j] = Head(notify_list)
                      THEN merged
                      ELSE Append(merged, Head(notify_list)),
                      Tail(notify_list))

\* _collect_notifications(result, item_notify): the task's notify after it,
\* raised when item_notify has a wrong type
collect_notifications(task_notify, changed, item_notify) ==
    IF item_notify = <<>> \/ ~changed
    THEN [raised |-> FALSE, notify |-> task_notify]
    ELSE IF item_notify[1].kind \notin {"str", "list"}
    THEN [raised |-> TRUE, notify |-> task_notify]
    ELSE [raised |-> FALSE,
          notify |-> List(merge_notify(
              CASE task_notify.kind = "none" -> <<>>
                [] task_notify.kind = "str"  ->
                       IF task_notify.val = "" THEN <<>> ELSE <<task_notify.val>>
                [] OTHER -> task_notify.val,
              IF item_notify[1].kind = "str" THEN <<item_notify[1].val>>
              ELSE item_notify[1].val))]

\* what run() leaves when it raises an AnsibleError: the task fails, with
\* the module executions made so far and the task's notify
Raised(f, calls, notify) ==
    [out |-> FailJson([fs |-> f, ops |-> calls], "AnsibleError"), notify |-> notify]

\* run(), steps 3 to 6: notify taken out, template and copy preprocessed,
\* the module executed, the notifications collected
action_preprocess(f, task, args, item_notify) ==
    LET state == IF "state" \in DOMAIN args THEN args.state ELSE "template"
        prep  == CASE state = "template" -> process_template(args, f)
                   [] state = "copy"     -> process_copy(args, f)
                   [] OTHER              -> Prepared(FALSE, args, f)
        o     == execute_module(prep.fs, prep.args)
        n     == collect_notifications(task.notify, o.changed, item_notify)
    IN  IF prep.raised THEN Raised(prep.fs, <<>>, task.notify)
        ELSE IF n.raised THEN Raised(o.fs, <<prep.args>>, task.notify)
        ELSE [out |-> [o EXCEPT !.ops = <<prep.args>>], notify |-> n.notify]

\* ActionModule.run(): out is the result with the remote filesystem and the
\* module executions (ops: the arguments passed), notify the task's notify
action_run(f, task) ==
    LET merged == merge_loop_params(task)
        when   == IF "when" \in DOMAIN merged THEN evaluate_when(merged.when) ELSE "T"
        args   == Pop(merged, "when")
    IN  CASE when = "X" -> Raised(f, <<>>, task.notify)
          [] when = "F" -> [out |-> Skipped(Ctx(f), "Per-item when condition evaluated to False"),
                            notify |-> task.notify]
          [] OTHER      ->
                action_preprocess(f, task, Pop(args, "notify"),
                                  IF "notify" \in DOMAIN args THEN <<args.notify>> ELSE <<>>)

\* the remote hosts: /tmp, and /d empty or with the file f
ActionHosts ==
    LET tmp  == Put(BaseFs, NodeOf(TMPDIR), Entry("dir", <<>>, <<>>, 5))
        base == Put(tmp, <<"d">>, Entry("dir", <<>>, <<>>, 10))
    IN  {tmp, base, Put(base, NodeOf(DEST), Entry("file", <<"b", "a", NL>>, <<>>, 11))}

\* the dictionary of the options that are given
Given1(opts) == [k \in {x \in DOMAIN opts : opts[x] # <<>>} |-> opts[k][1]]

\* the task-level notify: none, a string, a list
TaskNotifies ==
    {[kind |-> "none", val |-> <<>>], Str("h1"), Str(""), List(<<>>),
     List(<<"h1", "h2">>), List(<<"h2", "h2">>)}

\* the per-item when and notify
Whens ==
    {<<>>, <<Bool(TRUE)>>, <<Bool(FALSE)>>, <<Str("enabled")>>, <<Str("'No '")>>,
     <<Str("name")>>, <<Str("0")>>, <<Str("undefined")>>,
     <<List(<<Str("enabled"), Str("disabled"), Str("undefined")>>)>>}

Notifies == {<<>>, <<Str("h1")>>, <<List(<<"h2", "h3", "h2">>)>>, <<Num(1)>>}

ActionInit ==
    /\ fs \in ActionHosts
    /\ fs0 = fs
    /\ params = [args |-> [dest |-> DEST], item |-> [kind |-> "none", val |-> <<>>],
                 notify |-> [kind |-> "none", val |-> <<>>]]
    /\ res = NoResult
    /\ ops = <<>>
    /\ phase = "init"
    /\ first = [kind |-> "none", val |-> <<>>]

\* the task [args, item, notify] of the given options: they are the task's
\* arguments (no loop), or the loop item over the task's arguments ta
ActionTask(ta, loop, opts, tn) ==
    [args   |-> IF loop = "none" THEN Given1(opts) ELSE ta,
     item   |-> CASE loop = "dict" -> [kind |-> "dict", val |-> Given1(opts)]
                  [] loop = "str"  -> [kind |-> "str", val |-> "x"]
                  [] OTHER         -> [kind |-> "none", val |-> <<>>],
     notify |-> tn]

\* run() for a task without a loop
TaskRun ==
    /\ phase = "init"
    /\ \E st \in {<<>>, <<"template">>, <<"copy">>, <<"directory">>, <<"absent">>},
          co \in {<<>>, <<<<"b", VAR, NL>>>>, <<<<UNDEF>>>>},
          sr \in {<<>>, <<<<"t">>>>, <<<<"nx">>>>},
          wh \in Whens, no \in Notifies, tn \in TaskNotifies :
            Record(action_run(fs, ActionTask(<<>>, "none",
                                  [dest |-> <<DEST>>, state |-> st, content |-> co,
                                   src |-> sr, when |-> wh, notify |-> no], tn)).out,
                   ActionTask(<<>>, "none",
                              [dest |-> <<DEST>>, state |-> st, content |-> co,
                               src |-> sr, when |-> wh, notify |-> no], tn),
                   "ran",
                   action_run(fs, ActionTask(<<>>, "none",
                                  [dest |-> <<DEST>>, state |-> st, content |-> co,
                                   src |-> sr, when |-> wh, notify |-> no], tn)).notify)

\* run() for one item of a task with a loop
LoopRun ==
    /\ phase = "init"
    /\ \E ta \in {[dest |-> <<SL, "d", SL>>, trim_blocks |-> TRUE, remote_src |-> TRUE],
                  [dest |-> DEST, state |-> "copy", when |-> Bool(FALSE),
                   notify |-> Str("h2"), output_encoding |-> "utf-8"]},
          st \in {<<>>, <<"template">>, <<"copy">>, <<"touch">>},
          co \in {<<>>, <<<<VAR>>>>},
          sr \in {<<>>, <<<<"s">>>>, <<<<"t">>>>, <<<<"bad", ".j2">>>>},
          wh \in {<<>>, <<Bool(TRUE)>>, <<Str("disabled")>>},
          no \in Notifies, tn \in TaskNotifies, loop \in {"dict", "str"} :
            Record(action_run(fs, ActionTask(ta, loop,
                                  [state |-> st, content |-> co, src |-> sr,
                                   when |-> wh, notify |-> no], tn)).out,
                   ActionTask(ta, loop,
                              [state |-> st, content |-> co, src |-> sr,
                               when |-> wh, notify |-> no], tn),
                   "ran",
                   action_run(fs, ActionTask(ta, loop,
                                  [state |-> st, content |-> co, src |-> sr,
                                   when |-> wh, notify |-> no], tn)).notify)

ActionNext ==
    \/ TaskRun
    \/ LoopRun

ActionSpec == ActionInit /\ [][ActionNext]_vars

(***************************************************************************)
(* Forced replacements one after the other: dest is relinked with force    *)
(* and force_backup up to MaxForced times; first counts the runs.          *)
(***************************************************************************)
ForceInit ==
    /\ fs \in LET base == Put(Put(BaseFs, <<"d">>, Entry("dir", <<>>, <<>>, 10)),
                              NodeOf(SRC), Entry("file", <<"a", NL>>, <<>>, 20))
              IN  {WithDest(base, k) : k \in DestKinds}
    /\ fs0 = fs
    /\ params = BaseParams
    /\ res = NoResult
    /\ ops = <<>>
    /\ phase = "init"
    /\ first = 0

\* state=link with force and force_backup, src one of three targets
Relink ==
    \E t \in {SRC, NOWHERE, ETC}, ck \in BOOLEAN :
        /\ first < MaxForced
        /\ Record(run(fs, [BaseParams EXCEPT !.state = "link", !.src = <<t>>,
                                             !.check = ck, !.force = TRUE,
                                             !.force_backup = TRUE]),
                  [BaseParams EXCEPT !.state = "link", !.src = <<t>>, !.check = ck,
                                     !.force = TRUE, !.force_backup = TRUE],
                  "ran", first + 1)

ForceSpec == ForceInit /\ [][Relink]_vars

(***************************************************************************)
(* The properties.  fs0 is the filesystem before the run whose result is   *)
(* res, fs the filesystem after it, ops the mutating calls the run made.   *)
(***************************************************************************)
Ran == phase # "init"

\* C1: a run whose result says changed=false (not failed) has left the
\* filesystem exactly as it found it, also with makedirs=true and a missing
\* parent directory and when creates/removes skipped the run.
C1_UnchangedMeansUntouched ==
    (Ran /\ ~res.failed /\ ~res.changed) => fs = fs0

\* C2: for every state but touch, when a first run outside check mode
\* succeeded, the same task run again reports changed=false and leaves the
\* filesystem as the first run left it.
C2_SecondRunIsNoOp ==
    (phase = "reran" /\ params.state # "touch" /\ ~params.check /\ ~first.failed)
        => (~res.failed /\ ~res.changed /\ fs = fs0)

\* C3: a run in check mode mutates nothing: the filesystem is as before
\* the run and the run made no mutating call at all (no parent directory
\* created, nothing removed or renamed, no temp file staged, no validate
\* command run).
C3_CheckModeTouchesNothing ==
    (Ran /\ params.check) => (fs = fs0 /\ ops = <<>>)

\* a check-mode copy with makedirs, backup and a validate command whose
\* parent directory is missing and that reports a change
C3_Witness ==
    /\ phase = "ran"
    /\ params.check /\ params.makedirs /\ params.backup
    /\ params.state = "copy" /\ params.validate = "ok"
    /\ <<"d">> \notin DOMAIN fs0
    /\ res.changed

\* C4: when a run outside check mode succeeds, a check-mode run with the
\* same parameters on the same initial filesystem returns the same changed
\* flag, also when the content is already correct and only the mode differs.
C4_CheckModePredictsChanged ==
    (phase = "ran" /\ ~params.check /\ ~res.failed)
        => run(fs0, [params EXCEPT !.check = TRUE]).changed = res.changed

\* the mutating call named name was made by the run
Called(name) == \E i \in 1..Len(ops) : ops[i] = name

\* what is at dest and beneath it is the same in f and g
SameAt(f, g, dest) ==
    /\ Under(f, NodeOf(dest)) = Under(g, NodeOf(dest))
    /\ \A m \in Under(f, NodeOf(dest)) : f[m] = g[m]

\* C5: when the validate command of a copy, lineinfile or blockinfile run
\* exits non-zero, the run fails, whatever was at dest before the run (nothing,
\* a regular file, or with force=true a non-regular path) is still there
\* unchanged, and no temp file remains in dest's directory.
C5_FailedValidateLeavesDest ==
    (/\ phase = "ran"
     /\ params.state \in {"copy", "lineinfile", "blockinfile"}
     /\ params.validate = "fail"
     /\ Called("validate"))
        => (/\ res.failed
            /\ SameAt(fs0, fs, params.dest)
            /\ TmpNode(params.dest) \notin DOMAIN fs)

\* C6: on every way a write ends (success, validate command failing,
\* validate command without the %s placeholder, backup or rename failing) the
\* temp file staged in dest's directory has been renamed onto dest or deleted:
\* after the run no temp file is in dest's directory.
C6_NoTempLeftBehind ==
    (Ran /\ Called("mkstemp")) => TmpNode(params.dest) \notin DOMAIN fs

WriteStates == {"copy", "lineinfile", "blockinfile"}

\* the place of a call in the log of the run (0: not made)
Pos(name) == IF Called(name) THEN CHOOSE i \in 1..Len(ops) : ops[i] = name ELSE 0

\* C7: the steps of a write come in the order stage temp file, run validate
\* command, take backup, rename onto dest; the backup is taken only after the
\* validation succeeded: a run whose validation fails creates no backup file
\* and reports no backup_file.
C7_StageValidateBackupRename ==
    (Ran /\ params.state \in WriteStates) =>
        /\ Called("validate") => (0 < Pos("mkstemp") /\ Pos("mkstemp") < Pos("validate"))
        /\ Called("backup_local") =>
              /\ 0 < Pos("mkstemp") /\ Pos("mkstemp") < Pos("backup_local")
              /\ params.validate # "none" =>
                    (0 < Pos("validate") /\ Pos("validate") < Pos("backup_local"))
        /\ Called("rename") =>
              /\ 0 < Pos("mkstemp") /\ Pos("mkstemp") < Pos("rename")
              /\ params.validate # "none" =>
                    (0 < Pos("validate") /\ Pos("validate") < Pos("rename"))
              /\ Called("backup_local") => Pos("backup_local") < Pos("rename")
        /\ (Called("mkstemp") /\ params.validate \in {"fail", "noplaceholder"}) =>
              /\ res.failed
              /\ ~Called("backup_local") /\ ~Called("rename")
              /\ res.backup_file = <<>>
              /\ SameAt(fs0, fs, BackupPath(params.dest))

\* a write that staged, validated, backed up and renamed, in that order
C7_Witness ==
    /\ phase = "ran" /\ params.state \in WriteStates
    /\ params.validate = "ok" /\ params.backup
    /\ Called("mkstemp") /\ Called("validate") /\ Called("backup_local")
    /\ Called("rename")
    /\ res.backup_file = <<BackupPath(params.dest)>>
    /\ NodeOf(BackupPath(params.dest)) \in DOMAIN fs

\* the system directories the safety gate of state=absent protects
DeniedDirs == {<<"etc">>, <<"usr">>, <<"boot">>, <<"dev">>}

\* an empty path, a path that normalizes to /, or exactly a denied directory
DeniedPath(d) == d = <<>> \/ (IsAbs(d) /\ (NodeOf(d) = <<>> \/ NodeOf(d) \in DeniedDirs))

\* C8: state=absent (no override) on an empty dest, on /, on a path that
\* normalizes to / or on exactly a denied system directory fails with a
\* refusal and removes nothing.
C8_DeniedDestRefused ==
    (/\ Ran /\ params.state = "absent" /\ ~res.skipped
     /\ ~has_glob(params.dest) /\ DeniedPath(params.dest))
        => (res.failed /\ fs = fs0)

\* C9: state=absent (no override) on a glob pattern whose literal directory
\* part is / or a denied system directory fails with a refusal before any
\* match is removed.
C9_DeniedGlobRefused ==
    (/\ Ran /\ params.state = "absent" /\ ~res.skipped
     /\ has_glob(params.dest) /\ DeniedPath(dirname(params.dest)))
        => (res.failed /\ fs = fs0)

\* a path strictly beneath a denied directory
BelowDenied(d) ==
    IsAbs(d) /\ \E k \in DeniedDirs : IsPrefix(k, NodeOf(d)) /\ NodeOf(d) # k

\* C10: state=absent on a strict descendant of a denied directory is not
\* refused, and when nothing exists at that path the run succeeds with
\* changed=false (and removes nothing).
C10_DescendantNotRefused ==
    (Ran /\ params.state = "absent" /\ ~has_glob(params.dest) /\ BelowDenied(params.dest))
        => /\ ~res.failed
           /\ ~lexists(fs0, params.dest) => (~res.changed /\ fs = fs0)

\* state=absent ran on /etc/nx, where nothing exists
C10_Witness ==
    /\ phase = "ran" /\ params.state = "absent" /\ ~res.skipped /\ ~params.check
    /\ params.dest = <<SL, "etc", SL, "nx">>
    /\ res.msg = "path does not exist"

\* C11: state=hard treats dest as already correct only when dest and src
\* have the same device and the same inode number: with equal inode numbers
\* on different devices the no-op branch is not taken, and with force the
\* run relinks and reports changed=true.
C11_HardComparesDeviceAndInode ==
    (/\ Ran /\ params.state = "hard" /\ ~res.skipped
     /\ exists(fs0, params.dest) /\ exists(fs0, params.src[1])
     /\ fs0[Resolve(fs0, params.dest)].ino = fs0[Resolve(fs0, params.src[1])].ino
     /\ fs0[Resolve(fs0, params.dest)].dev # fs0[Resolve(fs0, params.src[1])].dev)
        => /\ res.msg # "hard link already correct"
           /\ params.force => (res.failed \/ res.changed)

\* C12: a state=hard run whose src does not exist fails, and whatever was at
\* dest before the run is still there unchanged, whatever force, force_backup
\* and backup are.
C12_HardMissingSrcKeepsDest ==
    (/\ Ran /\ params.state = "hard" /\ ~res.skipped
     /\ ~exists(fs0, params.src[1]))
        => (res.failed /\ SameAt(fs0, fs, params.dest))

\* C13: a state=touch run whose access_time or modification_time cannot be
\* parsed fails without any mutation: dest is not created, no parent directory
\* is created and an existing dest keeps its timestamps.
C13_TouchBadTimeTouchesNothing ==
    (/\ Ran /\ params.state = "touch" /\ ~res.skipped
     /\ (ParseFails(params.access_time) \/ ParseFails(params.modification_time)))
        => (res.failed /\ fs = fs0)

\* what is at dest in f has a type or target that conflicts with the state
\* asked for: not a regular file (copy, exists), not a real directory
\* (directory), not the symlink to src (link), not a link of src (hard)
Conflicting(f, p) ==
    CASE p.state = "copy" -> exists(f, p.dest) /\ ~isfile(f, p.dest)
      [] p.state = "exists" -> lexists(f, p.dest) /\ ~isfile(f, p.dest)
      [] p.state = "directory" ->
            lexists(f, p.dest) /\ ~(isdir(f, p.dest) /\ ~islink(f, p.dest))
      [] p.state = "link" ->
            lexists(f, p.dest) /\ ~(islink(f, p.dest) /\ <<f[NodeOf(p.dest)].target>> = p.src)
      [] p.state = "hard" ->
            /\ lexists(f, p.dest)
            /\ ~(exists(f, p.dest) /\ exists(f, p.src[1])
                 /\ f[Resolve(f, p.dest)].ino = f[Resolve(f, p.src[1])].ino
                 /\ f[Resolve(f, p.dest)].dev = f[Resolve(f, p.src[1])].dev)
      [] OTHER -> FALSE

\* C14: for copy, directory, exists, link and hard, when what is at dest
\* conflicts with the state asked for and force is not set, the run fails and
\* the filesystem is unchanged: the conflicting path is neither removed nor
\* renamed.
C14_ConflictWithoutForceFails ==
    (Ran /\ ~res.skipped /\ ~params.force /\ Conflicting(fs0, params))
        => (res.failed /\ fs = fs0)

\* C15: a copy with src set leaves the src file in place with the content
\* it had, whatever the outcome (changed, unchanged, check mode, validation
\* failure); on success in a real run dest holds a copy of those bytes.
C15_CopyKeepsSrc ==
    (/\ Ran /\ params.state = "copy" /\ params.src # <<>> /\ ~res.skipped
     /\ isfile(fs0, params.src[1]))
        => /\ isfile(fs, params.src[1])
           /\ ReadFile(fs, params.src[1]) = ReadFile(fs0, params.src[1])
           /\ (~res.failed /\ ~params.check) =>
                 (/\ isfile(fs, params.dest)
                  /\ ReadFile(fs, params.dest) = ReadFile(fs0, params.src[1]))

\* C16: when creates is set and that path exists, or removes is set and that
\* path does not exist, the run is skipped: changed=false, skipped=true with
\* the reason, no handler runs, nothing fails and the filesystem is unchanged.
C16_GuardsSkipBeforeDispatch ==
    (/\ Ran
     /\ \/ params.creates # <<>> /\ exists(fs0, params.creates[1])
        \/ params.removes # <<>> /\ ~exists(fs0, params.removes[1]))
        => (/\ res.skipped /\ ~res.changed /\ ~res.failed
            /\ res.msg = "Skipped"
            /\ fs = fs0 /\ ops = <<>>)

\* a skipped touch whose time value the handler would have rejected
C16_Witness ==
    /\ phase = "ran" /\ res.skipped
    /\ params.state = "touch" /\ ParseFails(params.access_time)
    /\ ~params.check /\ params.creates = <<SRC>>

\* C17: every state=touch run that succeeds and is not skipped returns
\* changed=true, whether dest existed or not, with or without explicit times,
\* in check mode and in a real run.
C17_TouchAlwaysChanged ==
    (Ran /\ params.state = "touch" /\ ~res.skipped /\ ~res.failed) => res.changed

\* a real touch of an existing file with an explicit modification time
C17_Witness ==
    /\ phase = "ran" /\ params.state = "touch" /\ ~params.check
    /\ params.modification_time = "explicit"
    /\ isfile(fs0, params.dest) /\ ~res.failed
    /\ fs[Resolve(fs, params.dest)].mtime = ExplicitTime

\* C18: state=exists on a dest that already reaches a regular file (directly
\* or through a symlink) never alters its content and returns changed=false
\* when the attributes need no change; a file is created, empty, only when
\* nothing is at dest; the call repeated after a creation returns
\* changed=false.
C18_ExistsKeepsFile ==
    (Ran /\ params.state = "exists" /\ ~res.skipped) =>
        /\ isfile(fs0, params.dest) =>
              /\ isfile(fs, params.dest)
              /\ ReadFile(fs, params.dest) = ReadFile(fs0, params.dest)
              /\ (\/ params.mode = <<>>
                  \/ fs0[Resolve(fs0, params.dest)].mode = params.mode[1]) => ~res.changed
        /\ Called("create") =>
              /\ ~lexists(fs0, params.dest) \/ params.force
              /\ ReadFile(fs, params.dest) = <<>>
        /\ (phase = "reran" /\ ~params.check /\ ~first.failed) => ~res.changed

\* C19: state=absent on a non-glob dest that is a symlink (to a file, to a
\* directory, or dangling) removes the link itself with changed=true and
\* leaves the target and everything else untouched; a dangling symlink is
\* removed, not treated as absent.
C19_AbsentRemovesOnlyTheLink ==
    (/\ Ran /\ params.state = "absent" /\ ~res.skipped
     /\ ~has_glob(params.dest) /\ islink(fs0, params.dest))
        => /\ res.changed /\ ~res.failed
           /\ ~params.check => fs = Del(fs0, {NodeOf(params.dest)})

\* the symlink to the directory /etc was removed
C19_Witness ==
    /\ phase = "ran" /\ params.state = "absent" /\ ~params.check /\ ~res.skipped
    /\ islink(fs0, params.dest) /\ fs0[NodeOf(params.dest)].target = ETC
    /\ ~lexists(fs, params.dest) /\ isfile(fs, <<SL, "etc", SL, "x">>)

\* the paths a glob pattern names in filesystem f: the entries of the
\* pattern's directory whose name the pattern's basename matches
Matched(f, dest) ==
    {m \in DOMAIN f : /\ m # <<>>
                      /\ SubSeq(m, 1, Len(m) - 1) = NodeOf(dirname(dest))
                      /\ GlobMatch(basename(dest)[1], m[Len(m)])}

LinkIsSrc(f, p) ==
    /\ NodeOf(p.dest) \in DOMAIN f
    /\ f[NodeOf(p.dest)].type = "link"
    /\ f[NodeOf(p.dest)].target = p.src[1]

\* C21: state=link takes its no-op branch exactly when dest is a symlink
\* whose stored target equals src as a string (/s and //s differ); whenever
\* something else is at dest the run fails without force and leaves it
\* alone, and with force replaces it by a symlink whose target is src.
C21_LinkComparesTargetVerbatim ==
    (/\ Ran /\ params.state = "link" /\ ~res.skipped
     /\ lexists(fs0, params.dest))
        => /\ LinkIsSrc(fs0, params) <=> res.msg = "symlink already correct"
           /\ LinkIsSrc(fs0, params) => (~res.failed /\ LinkIsSrc(fs, params))
           /\ (~LinkIsSrc(fs0, params) /\ ~params.force) => (res.failed /\ fs = fs0)
           /\ (~LinkIsSrc(fs0, params) /\ params.force) =>
                 /\ ~res.failed /\ res.changed
                 /\ IF params.check THEN fs = fs0 ELSE LinkIsSrc(fs, params)

\* a symlink to /s was replaced by a symlink to //s
C21_Witness ==
    /\ phase = "ran" /\ params.state = "link" /\ params.force /\ ~params.check
    /\ ~res.skipped /\ res.changed
    /\ params.src = << <<SL, SL, "s">> >>
    /\ islink(fs0, params.dest) /\ fs0[NodeOf(params.dest)].target = SRC
    /\ LinkIsSrc(fs, params)

\* the lines of dest before and after the run (none when dest is no file)
LinesOf(f, dest) == IF isfile(f, dest) THEN readlines(ReadFile(f, dest)) ELSE <<>>

Before == LinesOf(fs0, params.dest)

After == LinesOf(fs, params.dest)

\* a line or block edit whose arguments pass the handler's validation
ValidEdit(state, edit) ==
    /\ Ran /\ params.state = state /\ ~params.check
    /\ IF state = "lineinfile" THEN params.line_state = edit ELSE params.block_state = edit
    /\ ~(params.insertafter # <<>> /\ params.insertbefore # <<>>)

Given(opt) == opt # <<>> /\ opt[1] # <<>>

\* index of the last line of Before the pattern is found in, 0 when in none
LastFound(pat) ==
    IF \E i \in 1..Len(Before) : search(pat, Before[i])
    THEN CHOOSE i \in 1..Len(Before) :
            search(pat, Before[i]) /\ \A j \in (i + 1)..Len(Before) : ~search(pat, Before[j])
    ELSE 0

\* C22: lineinfile present with a regexp that matches: only the last
\* matching line is looked at; it becomes line plus newline when it differs
\* from line (terminators aside) and stays otherwise; every other line, the
\* order and the number of lines stay, nothing is inserted.
C22_RegexpReplacesLastMatch ==
    (/\ ValidEdit("lineinfile", "present") /\ params.line # <<>>
     /\ Given(params.regexp) /\ LastFound(params.regexp[1]) # 0)
        => /\ ~res.failed
           /\ After = [Before EXCEPT ![LastFound(params.regexp[1])] =
                          IF rstrip(@) # rstrip(params.line[1])
                          THEN with_nl(params.line[1]) ELSE @]
           /\ res.changed <=> After # Before

\* of two lines matching the regexp "a" the last one was replaced by "b"
C22_Witness ==
    /\ phase = "ran" /\ ValidEdit("lineinfile", "present")
    /\ params.regexp = << <<"a">> >> /\ params.line = << <<"b">> >>
    /\ Before = << <<"a", NL>>, <<"a", NL>>, <<"#", "E">> >>
    /\ After = << <<"a", NL>>, <<"b", NL>>, <<"#", "E">> >>
    /\ res.changed

\* the run had to insert the line: the regexp found no line or, without a
\* regexp, no line equals the line (and dest's directory is there or made)
Inserting ==
    /\ ValidEdit("lineinfile", "present") /\ params.line # <<>>
    /\ isdir(fs0, dirname(params.dest)) \/ params.makedirs
    /\ IF Given(params.regexp) THEN LastFound(params.regexp[1]) = 0
       ELSE \A i \in 1..Len(Before) : rstrip(Before[i]) # rstrip(params.line[1])

\* the pattern of the hint that names a line, <<>> for BOF, EOF and no hint
HintPattern(hint) == IF hint # <<>> /\ hint[1] \notin {BOF, EOF} THEN hint[1] ELSE <<>>

\* where the claimed rule puts the new line (lines before it), appended
\* lines going to the end
InsertIndex ==
    IF params.insertbefore = <<BOF>> THEN 0
    ELSE IF HintPattern(params.insertbefore) # <<>>
            /\ LastFound(HintPattern(params.insertbefore)) # 0
    THEN LastFound(HintPattern(params.insertbefore)) - 1
    ELSE IF HintPattern(params.insertafter) # <<>>
            /\ LastFound(HintPattern(params.insertafter)) # 0
    THEN LastFound(HintPattern(params.insertafter))
    ELSE Len(Before)

\* the append of the default and of insertafter=EOF
DefaultAppend == params.insertbefore = <<>> /\ params.insertafter \in {<<>>, <<EOF>>}

\* C23: an inserted line goes to index 0 for insertbefore=BOF, before the
\* last line matching the insertbefore regex, after the last line matching
\* the insertafter regex, and to the end when the regex matches nothing,
\* without a hint and for insertafter=EOF; the lines that were there keep
\* their content and order, except that the default/EOF append gives a
\* last line without newline its newline.
C23_InsertPosition ==
    Inserting =>
        /\ ~res.failed /\ res.changed
        /\ After = InsertAt(IF DefaultAppend THEN FixLast(Before) ELSE Before,
                            InsertIndex, <<with_nl(params.line[1])>>)

\* the lines line_state=absent is to leave: those the regexp is not found in
\* or, without a regexp, those that differ from line
Stays(ln) ==
    IF Given(params.regexp) THEN ~search(params.regexp[1], ln)
    ELSE rstrip(ln) # rstrip(params.line[1])

\* C24: lineinfile absent leaves the original lines without every line
\* matching regexp (when regexp is given), otherwise without every line
\* equal to line terminators aside; the other lines keep content and order;
\* a missing dest gives changed=false and nothing is created.
C24_AbsentRemovesEveryMatch ==
    (/\ ValidEdit("lineinfile", "absent")
     /\ (params.line # <<>> \/ params.regexp # <<>>))
        => /\ ~res.failed
           /\ After = SelectSeq(Before, Stays)
           /\ res.changed <=> After # Before
           /\ ~lexists(fs0, params.dest) => (~res.changed /\ fs = fs0)

\* C25: lineinfile present is idempotent: whatever the file, the line, the
\* regexp (also one that does not match the line itself) and the insertion
\* hint, a second identical run leaves the lines as the first run left them
\* and reports changed=false.
C25_LinePresentIdempotent ==
    (/\ phase = "reran" /\ ValidEdit("lineinfile", "present") /\ ~first.failed)
        => (~res.failed /\ ~res.changed /\ After = Before)

BeginMarker == replace_mark(params.marker, params.marker_begin)

EndMarker == replace_mark(params.marker, params.marker_end)

\* index of the first begin marker line of Before, 0 when there is none
FirstBegin ==
    IF \E i \in 1..Len(Before) : rstrip(Before[i]) = BeginMarker
    THEN CHOOSE i \in 1..Len(Before) :
            /\ rstrip(Before[i]) = BeginMarker
            /\ \A j \in 1..(i - 1) : rstrip(Before[j]) # BeginMarker
    ELSE 0

\* index of the first end marker line after the first begin marker, 0 when
\* there is none
FirstEnd ==
    IF FirstBegin # 0
       /\ \E i \in (FirstBegin + 1)..Len(Before) : rstrip(Before[i]) = EndMarker
    THEN CHOOSE i \in (FirstBegin + 1)..Len(Before) :
            /\ rstrip(Before[i]) = EndMarker
            /\ \A j \in (FirstBegin + 1)..(i - 1) : rstrip(Before[j]) # EndMarker
    ELSE 0

\* C26: blockinfile present on a file with a begin marker followed later by
\* an end marker replaces the region from the first begin marker line to
\* the first end marker line after it (markers included) by begin marker,
\* block lines and end marker; every line outside the region keeps its
\* content and its place relative to the region.
C26_BlockReplacesFirstRegion ==
    (/\ ValidEdit("blockinfile", "present") /\ params.block # <<>>
     /\ FirstEnd # 0)
        => /\ ~res.failed
           /\ After = SubSeq(Before, 1, FirstBegin - 1)
                      \o block_lines(params.block[1], BeginMarker, EndMarker)
                      \o SubSeq(Before, FirstEnd + 1, Len(Before))

\* the number of begin marker lines of the lines ls
Blocks(ls) == Cardinality({i \in 1..Len(ls) : rstrip(ls[i]) = BeginMarker})

\* C27: blockinfile present is idempotent: whatever the file, the block and
\* the insertion hint, a second identical run leaves the lines as the first
\* run left them and reports changed=false, and the file holds exactly one
\* managed block.
C27_BlockPresentIdempotent ==
    (/\ phase = "reran" /\ ValidEdit("blockinfile", "present") /\ ~first.failed)
        => (~res.failed /\ ~res.changed /\ After = Before /\ Blocks(After) = 1)

\* C28: blockinfile absent deletes exactly the first region from a begin
\* marker to the end marker after it (markers included) and keeps all other
\* lines in order; without a complete marker pair, or without dest, it
\* returns changed=false and writes or creates no file.
C28_BlockAbsentDeletesFirstRegion ==
    ValidEdit("blockinfile", "absent")
        => /\ ~res.failed
           /\ FirstEnd # 0 =>
                 /\ res.changed
                 /\ After = SubSeq(Before, 1, FirstBegin - 1)
                            \o SubSeq(Before, FirstEnd + 1, Len(Before))
           /\ FirstEnd = 0 =>
                 /\ ~res.changed
                 /\ SameAt(fs0, fs, params.dest)

\* the validate commands that end like the command v: with or without
\* placeholder, and with the same exit code
EndsLike(v) ==
    {w \in Validates \ {"none"} :
        HasPlaceholder(w) = HasPlaceholder(v) /\ ExitCode(w) = ExitCode(v)}

\* C29: the msg of a validation failure does not depend on the text of the
\* validate command: the same run with another command template that ends
\* the same way (same non-zero exit code, or no %s placeholder either)
\* gives the same msg.
C29_ValidateMsgHidesCommand ==
    (/\ Ran /\ ~res.skipped /\ res.failed /\ Called("mkstemp")
     /\ params.validate # "none"
     /\ ~HasPlaceholder(params.validate) \/ ExitCode(params.validate) # 0)
        => \A w \in EndsLike(params.validate) :
              run(fs0, [params EXCEPT !.validate = w]).msg = res.msg

\* C30: for state=directory the stripping of trailing slashes never gives
\* another or an empty path: dest "/" is the root directory, which exists,
\* so the run returns changed=false (no attribute asked for) and touches
\* nothing, and dest "<p>/" gives what dest "<p>" gives.
C30_DirectoryTrailingSlash ==
    (Ran /\ params.state = "directory" /\ ~res.skipped) =>
        /\ (params.dest = <<SL>> /\ params.mode = <<>>)
              => (~res.failed /\ ~res.changed /\ fs = fs0)
        /\ params.dest = Append(DEST, SL)
              => /\ run(fs0, [params EXCEPT !.dest = DEST]).fs = fs
                 /\ ResultOf(run(fs0, [params EXCEPT !.dest = DEST])) = res

AttributeStates ==
    {"copy", "directory", "exists", "link", "hard", "lineinfile", "blockinfile"}

\* the flag the attribute applier returns for dest as the run found it
Drift == apply_attributes(Ctx(fs0), RStripSlash(params.dest), params, FALSE).changed

\* the run is on a branch where content and existence were already
\* correct: without attributes asked for it reports no change
AlreadyCorrect ==
    /\ ~run(fs0, [params EXCEPT !.mode = <<>>]).changed
    /\ ~run(fs0, [params EXCEPT !.mode = <<>>]).failed

\* C31: for copy, directory, exists, link, hard, lineinfile and blockinfile
\* a successful run with dest existing afterwards has the attribute applier
\* run on dest, also where content or existence was already correct; there
\* changed is the applier's flag, so attribute drift alone gives
\* changed=true.
C31_AttributesAlwaysApplied ==
    (/\ Ran /\ params.state \in AttributeStates /\ ~res.skipped /\ ~res.failed
     /\ params.mode # <<>> /\ lexists(fs, RStripSlash(params.dest)))
        => /\ ~params.check =>
                 fs[NodeOf(RStripSlash(params.dest))].mode = params.mode[1]
           /\ (AlreadyCorrect /\ Drift) => res.changed
           /\ (AlreadyCorrect /\ ~params.recurse) => (res.changed <=> Drift)

\* the run decided that content or existence changes: with no attribute
\* asked for it still reports a change
ContentChanged ==
    /\ run(fs0, [params EXCEPT !.mode = <<>>]).changed
    /\ ~run(fs0, [params EXCEPT !.mode = <<>>]).failed

\* C32: a result carries diff only if diff mode was requested and the run
\* decided that content changes; with diff mode off, and from a no-op, a
\* skipped or a failed run, there is no diff.
C32_DiffOnlyOnContentChange ==
    (Ran /\ res.diff)
        => /\ params.diff
           /\ res.changed /\ ~res.skipped /\ ~res.failed
           /\ ContentChanged

\* a lineinfile run in diff and check mode that would add a line and says so
C32_Witness ==
    /\ phase = "ran" /\ params.state = "lineinfile" /\ params.diff /\ params.check
    /\ res.diff /\ res.changed /\ fs = fs0

(***************************************************************************)
(* The action plugin.  params is the task, ops the module executions with  *)
(* the arguments passed, first the task's notify after the run.            *)
(***************************************************************************)
\* what the item's 'when' evaluates to: "T", "F", "X" (raises) or "none"
WhenOf(task) ==
    IF "when" \in DOMAIN merge_loop_params(task)
    THEN evaluate_when(merge_loop_params(task).when)
    ELSE "none"

\* C33: when the per-item 'when' evaluates to false the module is not
\* executed, nothing changes on the remote host and the result is
\* changed=false, skipped=true; arguments passed to the module never hold
\* the keys 'when' or 'notify'.
C33_WhenFalseSkipsAndKeysStripped ==
    Ran => /\ WhenOf(params) = "F" =>
                /\ ops = <<>>
                /\ fs = fs0
                /\ ~res.changed /\ res.skipped /\ ~res.failed
           /\ \A i \in 1..Len(ops) : (DOMAIN ops[i]) \cap {"when", "notify"} = {}

\* a loop item whose 'when' is false, over task arguments that carry a
\* notify, was skipped
C33_Witness ==
    /\ phase = "ran"
    /\ WhenOf(params) = "F"
    /\ params.item.kind = "dict"
    /\ "notify" \in DOMAIN merge_loop_params(params)
    /\ res.skipped
    /\ ops = <<>>

\* the item's notify as a list of handlers (none when it is not given)
ItemHandlers ==
    IF "notify" \notin DOMAIN merge_loop_params(params) THEN <<>>
    ELSE IF merge_loop_params(params).notify.kind = "str"
    THEN <<merge_loop_params(params).notify.val>>
    ELSE merge_loop_params(params).notify.val

\* the task-level notify as a list of handlers
TaskHandlers ==
    IF params.notify.kind = "list" THEN params.notify.val
    ELSE IF params.notify.kind = "str" /\ params.notify.val # "" THEN <<params.notify.val>>
    ELSE <<>>

\* C34: the item's handlers are added to the task's notify only when the
\* module result has changed=true; the merged list then starts with the
\* task-level handlers in their order, holds every item handler, holds nothing
\* else and holds no handler twice; otherwise the task's notify is as it was.
C34_NotifyMergedOnlyWhenChanged ==
    (Ran /\ res.msg # "AnsibleError") =>
        IF res.changed /\ "notify" \in DOMAIN merge_loop_params(params)
        THEN /\ first.kind = "list"
             /\ Len(first.val) >= Len(TaskHandlers)
             /\ SubSeq(first.val, 1, Len(TaskHandlers)) = TaskHandlers
             /\ \A i \in 1..Len(ItemHandlers) :
                    \E j \in 1..Len(first.val) : first.val[j] = ItemHandlers[i]
             /\ \A j \in (Len(TaskHandlers) + 1)..Len(first.val) :
                    \E i \in 1..Len(ItemHandlers) : first.val[j] = ItemHandlers[i]
             /\ \A i, j \in 1..Len(first.val) : first.val[i] = first.val[j] => i = j
        ELSE first = params.notify

\* the template text of a run whose state is template: the inline content, or
\* the controller file named by src or by dest
TemplateText ==
    LET args == merge_loop_params(params)
        src  == IF "src" \in DOMAIN args THEN args.src
                ELSE Append(basename(args.dest), ".j2")
    IN  IF "content" \in DOMAIN args THEN args.content
        ELSE ControllerFiles.templates[src]

\* C35: a run with state=template, or with no state, that executes the
\* module passes it state=copy, the rendered text as content, no src and none
\* of the template-only options; no run executes the module with
\* state=template or without a state.
C35_TemplateBecomesCopy ==
    Ran => \A i \in 1..Len(ops) :
        /\ "state" \in DOMAIN ops[i] /\ ops[i].state # "template"
        /\ ("state" \notin DOMAIN merge_loop_params(params)
            \/ merge_loop_params(params).state = "template")
              => /\ ops[i].state = "copy"
                 /\ "content" \in DOMAIN ops[i]
                 /\ ops[i].content = templar(TemplateText)
                 /\ "src" \notin DOMAIN ops[i]
                 /\ (DOMAIN ops[i]) \cap TEMPLATE_ONLY = {}

\* a file template named by src, with a template-only option among the
\* task's arguments, was rendered and written by the module
C35_Witness ==
    /\ phase = "ran"
    /\ "state" \notin DOMAIN merge_loop_params(params)
    /\ "src" \in DOMAIN merge_loop_params(params)
    /\ (DOMAIN merge_loop_params(params)) \cap TEMPLATE_ONLY # {}
    /\ Len(ops) = 1
    /\ ops[1].content # TemplateText
    /\ res.changed

\* the names _force_remove gives a backup of dest
BackupNames == {OldPath(params.dest), OldTimePath(params.dest)}

\* C36: a forced replacement with force_backup renames what was at dest to a
\* backup name that did not exist before the rename; what was at dest is
\* under that name afterwards, and every backup that was there before the
\* run is still there unchanged.
C36_BackupNeverOverwritten ==
    (Ran /\ params.force_backup /\ Called("rename_old")) =>
        /\ \E b \in BackupNames :
              /\ ~lexists(fs0, b)
              /\ lexists(fs, b)
              /\ fs[NodeOf(b)] = fs0[NodeOf(params.dest)]
        /\ \A b \in BackupNames : lexists(fs0, b) => SameAt(fs0, fs, b)

\* the lines of dest hold begin marker, block lines and end marker one
\* after the other
HoldsBlock(ls) ==
    LET new == block_lines(params.block[1], BeginMarker, EndMarker)
    IN  \E i \in 0..(Len(ls) - Len(new)) :
            \A k \in 1..Len(new) : rstrip(ls[i + k]) = rstrip(new[k])

\* a begin marker followed, further down, by an end marker
HoldsRegion(ls) ==
    \E i, j \in 1..Len(ls) :
        i < j /\ rstrip(ls[i]) = BeginMarker /\ rstrip(ls[j]) = EndMarker

\* dest is in the state the run asked for
Satisfied ==
    CASE params.state = "copy" /\ params.content # <<>> ->
            isfile(fs, params.dest) /\ ReadFile(fs, params.dest) = params.content[1]
      [] params.state = "copy" ->
            /\ isfile(fs, params.dest)
            /\ params.src # <<>> /\ isfile(fs, params.src[1])
            /\ ReadFile(fs, params.dest) = ReadFile(fs, params.src[1])
      [] params.state = "directory" ->
            isdir(fs, params.dest) /\ ~islink(fs, RStripSlash(params.dest))
      [] params.state \in {"exists", "touch"} -> exists(fs, params.dest)
      [] params.state = "absent" -> has_glob(params.dest) \/ ~lexists(fs, params.dest)
      [] params.state = "link" ->
            islink(fs, params.dest) /\ <<fs[NodeOf(params.dest)].target>> = params.src
      [] params.state = "hard" ->
            /\ exists(fs, params.dest) /\ params.src # <<>> /\ exists(fs, params.src[1])
            /\ fs[Resolve(fs, params.dest)].ino = fs[Resolve(fs, params.src[1])].ino
            /\ fs[Resolve(fs, params.dest)].dev = fs[Resolve(fs, params.src[1])].dev
      [] params.state = "lineinfile" /\ params.line_state = "present" ->
            /\ params.line # <<>>
            /\ \E i \in 1..Len(After) : rstrip(After[i]) = rstrip(params.line[1])
      [] params.state = "lineinfile" ->
            (params.line # <<>> \/ params.regexp # <<>>)
                => \A i \in 1..Len(After) : Stays(After[i])
      [] params.state = "blockinfile" /\ params.block_state = "present" ->
            params.block # <<>> /\ isfile(fs, params.dest) /\ HoldsBlock(After)
      [] params.state = "blockinfile" -> ~HoldsRegion(After)
      [] OTHER -> TRUE

\* C37: after a run that succeeded, was not skipped and was not in check
\* mode, dest is in the state the run asked for.
C37_DestSatisfiesState ==
    (Ran /\ ~res.failed /\ ~res.skipped /\ ~params.check) => Satisfied

\* the file before the run holds neither marker and ends with a newline
PlainFile ==
    /\ isfile(fs0, params.dest)
    /\ \A i \in 1..Len(Before) :
          rstrip(Before[i]) \notin {BeginMarker, EndMarker} /\ endswith_nl(Before[i])

\* the lines of dest after block_state=absent, run on what the run left
Removed ==
    LinesOf(run(fs, [params EXCEPT !.block_state = "absent"]).fs, params.dest)

\* C38: on a file that holds neither marker and ends with a newline (or is
\* empty), block_state=present followed by block_state=absent with the same
\* markers gives back the original lines.
C38_BlockRoundTrip ==
    (/\ ValidEdit("blockinfile", "present")
     /\ phase = "ran"
     /\ params.block # <<>>
     /\ PlainFile)
        => /\ ~res.failed
           /\ Removed = Before

\* the elements of a list
Elements(l) == {l[i] : i \in 1..Len(l)}

\* C39: every valid state has an entry in STATE_HANDLERS that names a
\* handler, so no run with a valid state ends with 'Unknown state' or with a
\* missing method; NO_VALIDATE_STATES and FILE_CONTENT_STATES are disjoint
\* and together are VALID_STATES.
C39_StateConstantsConsistent ==
    /\ Elements(VALID_STATES) \subseteq DOMAIN STATE_HANDLERS
    /\ (Ran /\ params.state \in Elements(VALID_STATES))
          => res.msg \notin {"Unknown state", "Unexpected error: no attribute"}
    /\ Elements(NO_VALIDATE_STATES) \cap Elements(FILE_CONTENT_STATES) = {}
    /\ Elements(NO_VALIDATE_STATES) \cup Elements(FILE_CONTENT_STATES)
          = Elements(VALID_STATES)

\* a run with state=template was dispatched to the copy handler and wrote
\* the content
C39_Witness ==
    /\ phase = "ran"
    /\ params.state = "template"
    /\ params.content # <<>>
    /\ res.changed /\ ~res.failed
    /\ isfile(fs, params.dest) /\ ReadFile(fs, params.dest) = params.content[1]
====
